---- MODULE Spec2Model ----
(***************************************************************************)
(* ReStoreX backend: the scan job service (scan_service.py), the recovery  *)
(* engine's scanning routines and its extractor                            *)
(* (python_recovery_service.py).                                           *)
(*                                                                         *)
(* Each behaviour explores one component, chosen by `scenario` in Init:    *)
(*   "service"  ScanService jobs: start_scan, the _run_scan task,          *)
(*              cancel_scan, get_scan_results                              *)
(*   "jobs"     the same service with two scan jobs running concurrently   *)
(*   "ntfs"     _recover_ntfs_deleted_files, the walk over the MFT         *)
(*   "attributes" _parse_ntfs_entry_improved, the walk over one MFT entry   *)
(*   "fat32"    _recover_from_fat32, the walk over directory clusters      *)
(*   "carve"    _carve_files in deep-scan (index) and carving mode         *)
(*   "recover"  recover_selected_files on a batch sent by a client         *)
(*   "recovery_job" RecoveryService: the _run_recovery task over indexed   *)
(*              and already-staged files, cancel_recovery                  *)
(* In the three scanning scenarios recover_selected_files then runs on the *)
(* records the scan indexed, on the same device.                           *)
(* Progress is a percentage kept in thousandths (Pct(5) is 5.0 %), so that *)
(* round(progress, 2) is a real rounding.                                  *)
(***************************************************************************)
EXTENDS Integers, Sequences, FiniteSets, TLC

VARIABLES scenario,       \* which component this behaviour exercises
          active_scans,   \* ScanService.active_scans: scan_id -> scan_info
          scan_results,   \* ScanService.scan_results: scan_id -> number of files
          task,           \* the asyncio task of _run_scan(scan_id): its position
          sent,           \* last scan_progress message broadcast per scan
          cancel_running, \* history: cancel_scan(id) was called while the task ran
          in_flight,      \* per scan and sender: broadcasts awaiting send_json
          drive,          \* the device a recovery engine routine works on
          walk,           \* the running engine scan routine: position, flag
          recovered_files, \* the record list the engine scan routine builds
          carve,          \* the Carver's buffer and bookkeeping
          rec,            \* recover_selected_files: its batch and results
          recovery,       \* RecoveryService: the job of active_recoveries, its task
          report,         \* what an engine helper or diagnostic routine returns
          websocket       \* WebSocketManager: the connections, a running broadcast

svars == <<active_scans, scan_results, task, sent, cancel_running, in_flight>>
evars == <<drive, walk, recovered_files, carve, rec, recovery, report, websocket>>
vars == <<scenario, active_scans, scan_results, task, sent, cancel_running,
          in_flight, drive, walk, recovered_files, carve, rec, recovery,
          report, websocket>>

Pct(n) == n * 1000

Min(a, b) == IF a <= b THEN a ELSE b

EmptyMap == [x \in {} |-> 0]

\* ------------------------------------------------------------------------
\* scan_service.py
\* ------------------------------------------------------------------------
JobIds == {"job1", "job2"}

\* the scan types of the jobs that run side by side in scenario "jobs"
ConcurrentScanTypes == {"health", "unknown"}

\* scenario "service" follows one job of any type, scenario "jobs" two jobs
MayStart(j, scan_type) ==
    \/ scenario = "service" /\ j = "job1"
    \/ scenario = "jobs" /\ scan_type \in ConcurrentScanTypes

ScanTypes == {"normal", "deep", "cluster", "health", "signature", "forensic",
              "unknown"}

NormalIterations == 20
NormalFilesPerStep == 50
NormalMockFiles == 100
DeepIterations == 50
DeepFilesPerStep == 30
DeepMockFiles == 200

ClusterIterations == 30
ClusterFilesPerStep == 4
OrphanedFilesCap == 150
SignatureCount == 10
ForensicDeletedIterations == 15
ForensicSignatureIterations == 15
ForensicMetadataIterations == 10
ForensicHashSample == 20
ForensicDeletedFiles == 50
ForensicCarvedFiles == 50

NormalProgress(i) == (i + 1) * Pct(5)
DeepProgress(i) == (i + 1) * Pct(2)
\* (i + 1) * 3.33
ClusterProgress(i) == (i + 1) * 3330
\* _check_file_system .. _check_smart_data: 10; 20, 30, 40; 60; 80; 100
HealthProgress == <<Pct(10), Pct(20), Pct(30), Pct(40), Pct(60), Pct(80),
                    Pct(100)>>
\* ((idx + 1) / total_signatures) * 100
SignatureProgress(idx) == ((idx + 1) * Pct(100)) \div SignatureCount
\* find_counts of _search_signature, in the order of _get_file_signatures
FindCounts == <<35, 20, 15, 10, 12, 8, 18, 5, 3, 4>>
ForensicDeletedProgress(i) == Pct(10) + (i + 1) * Pct(2)
ForensicSignatureProgress(i) == Pct(40) + (i + 1) * Pct(2)
ForensicMetadataProgress(i) == Pct(70) + (i + 1) * Pct(2)
ForensicHashProgressNoBase(i) == (i * Pct(10)) \div ForensicHashSample
\* 90 + (i / 20) * 10
ForensicHashProgress(i) == Pct(90) + (i * Pct(10)) \div ForensicHashSample

\* round(scan_info["progress"], 2): thousandths to the nearest hundredth
Round2(p) == ((p + 5) \div 10) * 10

\* the ScanProgress message _broadcast_progress builds from scan_info
Message(info) ==
    [progress |-> Round2(info.progress), status |-> info.status,
     isScanning |-> info.status = "running", filesFound |-> info.files_found]

\* the coroutines that await a broadcast for a scan: its own task, and the
\* request handler that runs cancel_scan
Senders == {"task", "request"}

\* requests whose broadcast may be awaiting delivery at the same time
MaxPendingRequests == 1

\* websocket_manager.broadcast, entered by sender: the message goes out to
\* the connections and the sender waits in send_json until it is taken
WebsocketBroadcast(j, message, sender) ==
    /\ sent' = (j :> message) @@ sent
    /\ in_flight' = [in_flight EXCEPT ![j][sender] = @ + 1]

\* _broadcast_progress called by the task of scan j
Broadcast(j, info) == WebsocketBroadcast(j, Message(info), "task")

\* send_json returns (or raises, which broadcast swallows): the sender goes on
Deliver(j, sender) ==
    /\ scenario \in {"service", "jobs"}
    /\ in_flight[j][sender] > 0
    /\ in_flight' = [in_flight EXCEPT ![j][sender] = @ - 1]
    /\ UNCHANGED <<scenario, active_scans, scan_results, task, sent,
                   cancel_running, evars>>

\* the routines that look the drive up (drive_service.get_all_drives)
LooksUpDrive(scan_type) == scan_type \in {"cluster", "health"}

\* start_scan: registers scan_info and creates the task; drive_ok tells
\* whether the drive list will hold drive_id when the routine asks for it
StartScan(j, scan_type, drive_ok) ==
    /\ MayStart(j, scan_type)
    /\ j \notin DOMAIN active_scans
    /\ LooksUpDrive(scan_type) \/ drive_ok
    /\ active_scans' = (j :> [scan_type |-> scan_type, status |-> "running",
                              progress |-> 0, files_found |-> 0,
                              error |-> FALSE]) @@ active_scans
    /\ task' = (j :> [pc |-> "start", i |-> 0, found |-> 0,
                      drive_ok |-> drive_ok]) @@ task
    /\ cancel_running' = (j :> FALSE) @@ cancel_running
    /\ UNCHANGED <<scenario, scan_results, sent, in_flight, evars>>

\* the except branch written over every job of the service
RaisesInEveryJob(j) ==
    /\ active_scans' = [k \in DOMAIN active_scans |->
                            [active_scans[k] EXCEPT !.status = "error",
                                                    !.error = TRUE]]
    /\ task' = [task EXCEPT ![j].pc = "notify"]

RunScanForgetsStatus(info) == [info EXCEPT !.progress = Pct(100)]

\* _run_scan lines 70-71, reached when the scan routine returns normally
RunScanCompleted(info) ==
    [info EXCEPT !.status = "completed", !.progress = Pct(100)]

\* _run_scan lines 88-91, reached when the scan routine raises
RunScanFailed(info) == [info EXCEPT !.status = "error", !.error = TRUE]

\* the routine raised: _run_scan marks the job and awaits the last broadcast
Raises(j) ==
    /\ active_scans' = [active_scans EXCEPT ![j] = RunScanFailed(@)]
    /\ task' = [task EXCEPT ![j].pc = "notify"]

\* the routine returned: _run_scan marks the job and awaits the last broadcast
Returns(j, info) ==
    /\ active_scans' = [active_scans EXCEPT ![j] = RunScanCompleted(info)]
    /\ task' = [task EXCEPT ![j].pc = "notify"]

\* the routine goes on to its next await
Continues(j, info, pc, i) ==
    /\ active_scans' = [active_scans EXCEPT ![j] = info]
    /\ task' = [task EXCEPT ![j].pc = pc, ![j].i = i]

Store(j, n) == scan_results' = (j :> n) @@ scan_results

AtPc(j, pc) ==
    /\ scenario \in {"service", "jobs"}
    /\ j \in DOMAIN task
    /\ task[j].pc = pc
    /\ in_flight[j].task = 0

\* _run_normal_scan: one iteration of the loop, from its sleep to the next
RunNormalScan(j) ==
    /\ AtPc(j, "normal")
    /\ LET i == task[j].i
           info == [active_scans[j] EXCEPT
                       !.progress = NormalProgress(i),
                       !.files_found = (i + 1) * NormalFilesPerStep]
       IN /\ Broadcast(j, info)
          /\ IF info.status = "cancelled"
             THEN Returns(j, info) /\ UNCHANGED scan_results
             ELSE IF i + 1 < NormalIterations
                  THEN Continues(j, info, "normal", i + 1)
                       /\ UNCHANGED scan_results
                  ELSE Returns(j, info) /\ Store(j, NormalMockFiles)
    /\ UNCHANGED <<scenario, cancel_running, evars>>

\* _run_deep_scan: one iteration of the loop
RunDeepScan(j) ==
    /\ AtPc(j, "deep")
    /\ LET i == task[j].i
           info == [active_scans[j] EXCEPT
                       !.progress = DeepProgress(i),
                       !.files_found = (i + 1) * DeepFilesPerStep]
       IN /\ Broadcast(j, info)
          /\ IF info.status = "cancelled"
             THEN Returns(j, info) /\ UNCHANGED scan_results
             ELSE IF i + 1 < DeepIterations
                  THEN Continues(j, info, "deep", i + 1)
                       /\ UNCHANGED scan_results
                  ELSE Returns(j, info) /\ Store(j, DeepMockFiles)
    /\ UNCHANGED <<scenario, cancel_running, evars>>

\* the inner "except Exception" of the cluster, health, signature and
\* forensic routines: the error is recorded and the routine returns normally
RoutineSwallows(j, info) ==
    /\ Returns(j, [info EXCEPT !.error = TRUE])
    /\ Store(j, 0)

\* _run_cluster_scan and _run_health_scan after get_all_drives() answered
DriveLookup(j) ==
    /\ AtPc(j, "drives")
    /\ IF ~task[j].drive_ok
       THEN RoutineSwallows(j, active_scans[j])           \* "Drive not found"
       ELSE /\ Continues(j, active_scans[j],
                         active_scans[j].scan_type, 0)
            /\ UNCHANGED scan_results
    /\ UNCHANGED <<scenario, sent, in_flight, cancel_running, evars>>

\* _find_cluster_chains: files built from the orphaned clusters reported
FindClusterChains(info, orphaned) ==
    IF info.status = "cancelled" THEN 0
    ELSE Min(orphaned \div 10, OrphanedFilesCap)

\* _analyze_clusters: one iteration; on its return _find_cluster_chains runs
\* and _run_cluster_scan stores the files
RunClusterScan(j) ==
    /\ AtPc(j, "cluster")
    /\ LET i == task[j].i
           info == [active_scans[j] EXCEPT
                       !.progress = ClusterProgress(i),
                       !.files_found = (i + 1) * ClusterFilesPerStep]
       IN /\ Broadcast(j, info)
          /\ IF info.status = "cancelled"
             THEN Returns(j, info) /\ Store(j, FindClusterChains(info, 0))
             ELSE IF i + 1 < ClusterIterations
                  THEN Continues(j, info, "cluster", i + 1)
                       /\ UNCHANGED scan_results
                  ELSE \E orphaned \in {0, 10 * OrphanedFilesCap + 10} :
                          /\ Returns(j, info)
                          /\ Store(j, FindClusterChains(info, orphaned))
    /\ UNCHANGED <<scenario, cancel_running, evars>>

\* _run_health_scan: one of the seven progress steps of the five checks
RunHealthScan(j) ==
    /\ AtPc(j, "health")
    /\ LET i == task[j].i
           info == [active_scans[j] EXCEPT !.progress = HealthProgress[i + 1]]
       IN /\ Broadcast(j, info)
          /\ IF i + 1 < Len(HealthProgress)
             THEN Continues(j, info, "health", i + 1)
                  /\ UNCHANGED scan_results
             ELSE Returns(j, info) /\ Store(j, 0)
    /\ UNCHANGED <<scenario, cancel_running, evars>>

\* _search_signature after its sleep: the files it returns
SearchSignature(info, idx) ==
    IF info.status = "cancelled" THEN 0 ELSE FindCounts[idx + 1]

\* _run_signature_scan: from the sleep of _search_signature for signature
\* idx to the next one, or out of the loop
RunSignatureScan(j) ==
    /\ AtPc(j, "signature")
    /\ LET idx == task[j].i
           found == task[j].found + SearchSignature(active_scans[j], idx)
           info == [active_scans[j] EXCEPT
                       !.progress = SignatureProgress(idx),
                       !.files_found = found]
       IN /\ Broadcast(j, info)
          /\ IF info.status = "cancelled" \/ idx + 1 = SignatureCount
             THEN /\ Returns(j, info)
                  /\ Store(j, found)
             ELSE /\ active_scans' = [active_scans EXCEPT ![j] = info]
                  /\ task' = [task EXCEPT ![j].i = idx + 1,
                                          ![j].found = found]
                  /\ UNCHANGED scan_results
    /\ UNCHANGED <<scenario, cancel_running, evars>>

\* _forensic_drive_analysis
ForensicDriveAnalysis(j) ==
    /\ AtPc(j, "f_analysis")
    /\ LET info == [active_scans[j] EXCEPT !.progress = Pct(10)]
       IN Broadcast(j, info) /\ Continues(j, info, "f_deleted", 0)
    /\ UNCHANGED <<scenario, scan_results, cancel_running, evars>>

\* a phase of the forensic scan hands over to the next phase's first sleep
ForensicPhase(j, info, pc, found) ==
    /\ active_scans' = [active_scans EXCEPT ![j] = info]
    /\ task' = [task EXCEPT ![j].pc = pc, ![j].i = 0, ![j].found = found]

\* _forensic_deleted_files: one iteration; a cancelled phase returns no file
ForensicDeletedFilesStep(j) ==
    /\ AtPc(j, "f_deleted")
    /\ LET i == task[j].i
           info == [active_scans[j] EXCEPT
                       !.progress = ForensicDeletedProgress(i)]
       IN /\ Broadcast(j, info)
          /\ IF info.status = "cancelled"
             THEN ForensicPhase(j, info, "f_signature", 0)
             ELSE IF i + 1 < ForensicDeletedIterations
                  THEN Continues(j, info, "f_deleted", i + 1)
                  ELSE ForensicPhase(j, info, "f_signature",
                                     ForensicDeletedFiles)
    /\ UNCHANGED <<scenario, scan_results, cancel_running, evars>>

\* _forensic_signature_recovery: one iteration
ForensicSignatureRecovery(j) ==
    /\ AtPc(j, "f_signature")
    /\ LET i == task[j].i
           info == [active_scans[j] EXCEPT
                       !.progress = ForensicSignatureProgress(i)]
       IN /\ Broadcast(j, info)
          /\ IF info.status = "cancelled"
             THEN ForensicPhase(j, info, "f_metadata", task[j].found)
             ELSE IF i + 1 < ForensicSignatureIterations
                  THEN Continues(j, info, "f_signature", i + 1)
                  ELSE ForensicPhase(j, info, "f_metadata",
                                     task[j].found + ForensicCarvedFiles)
    /\ UNCHANGED <<scenario, scan_results, cancel_running, evars>>

\* _forensic_metadata_extraction: one iteration; on its return
\* _forensic_hash_calculation starts over min(len(files), 20) files
ForensicMetadataExtraction(j) ==
    /\ AtPc(j, "f_metadata")
    /\ LET i == task[j].i
           info == [active_scans[j] EXCEPT
                       !.progress = ForensicMetadataProgress(i)]
       IN /\ Broadcast(j, info)
          /\ IF info.status # "cancelled"
                /\ i + 1 < ForensicMetadataIterations
             THEN Continues(j, info, "f_metadata", i + 1)
                  /\ UNCHANGED scan_results
             ELSE IF Min(task[j].found, ForensicHashSample) = 0
                  THEN Returns(j, info) /\ Store(j, task[j].found)
                  ELSE Continues(j, info, "f_hash", 0)
                       /\ UNCHANGED scan_results
    /\ UNCHANGED <<scenario, cancel_running, evars>>

\* _forensic_hash_calculation: one iteration; on its return
\* _run_forensic_scan stores all_files
ForensicHashCalculation(j) ==
    /\ AtPc(j, "f_hash")
    /\ LET i == task[j].i
           info == [active_scans[j] EXCEPT
                       !.progress = ForensicHashProgress(i)]
       IN /\ Broadcast(j, info)
          /\ IF info.status # "cancelled"
                /\ i + 1 < Min(task[j].found, ForensicHashSample)
             THEN Continues(j, info, "f_hash", i + 1)
                  /\ UNCHANGED scan_results
             ELSE Returns(j, info) /\ Store(j, task[j].found)
    /\ UNCHANGED <<scenario, cancel_running, evars>>

\* _run_scan up to the first await of the routine it dispatches to
RunScanDispatch(j) ==
    /\ AtPc(j, "start")
    /\ LET t == active_scans[j].scan_type
           info == active_scans[j]
       IN CASE t \in {"normal", "deep"} ->
                 Continues(j, info, t, 0) /\ UNCHANGED scan_results
            [] t \in {"cluster", "health"} ->
                 Continues(j, info, "drives", 0) /\ UNCHANGED scan_results
            [] t = "signature" ->
                 IF info.status = "cancelled"
                 THEN Returns(j, info) /\ Store(j, 0)
                 ELSE Continues(j, info, "signature", 0)
                      /\ UNCHANGED scan_results
            [] t = "forensic" ->
                 Continues(j, info, "f_analysis", 0) /\ UNCHANGED scan_results
            [] OTHER -> Raises(j) /\ UNCHANGED scan_results
    /\ UNCHANGED <<scenario, sent, in_flight, cancel_running, evars>>

\* _run_scan line 86 / 92: the final broadcast, after which the task is over
RunScanNotify(j) ==
    /\ AtPc(j, "notify")
    /\ Broadcast(j, active_scans[j])
    /\ task' = [task EXCEPT ![j].pc = "done"]
    /\ UNCHANGED <<scenario, active_scans, scan_results, cancel_running, evars>>

\* cancel_scan
CancelScan(j) ==
    /\ scenario \in {"service", "jobs"}
    /\ j \in DOMAIN active_scans
    /\ in_flight[j].request < MaxPendingRequests
    /\ active_scans' = [active_scans EXCEPT ![j].status = "cancelled"]
    /\ WebsocketBroadcast(j, Message(active_scans'[j]), "request")
    /\ cancel_running' =
           [cancel_running EXCEPT ![j] = @ \/ task[j].pc # "done"]
    /\ UNCHANGED <<scenario, scan_results, task, evars>>

\* get_scan_results: the number of files it returns
GetScanResults(j) == IF j \in DOMAIN scan_results THEN scan_results[j] ELSE 0

\* one step of the task of scan j, from one await to the next
TaskStep(j) ==
    \/ RunScanDispatch(j)
    \/ RunNormalScan(j)
    \/ RunDeepScan(j)
    \/ DriveLookup(j)
    \/ RunClusterScan(j)
    \/ RunHealthScan(j)
    \/ RunSignatureScan(j)
    \/ ForensicDriveAnalysis(j)
    \/ ForensicDeletedFilesStep(j)
    \/ ForensicSignatureRecovery(j)
    \/ ForensicMetadataExtraction(j)
    \/ ForensicHashCalculation(j)
    \/ RunScanNotify(j)

\* the scan service before any job was started
ServiceIdle ==
    /\ active_scans = EmptyMap
    /\ scan_results = EmptyMap
    /\ task = EmptyMap
    /\ sent = EmptyMap
    /\ cancel_running = EmptyMap
    /\ in_flight = [j \in JobIds |-> [s \in Senders |-> 0]]

\* ------------------------------------------------------------------------
\* python_recovery_service.py: the device
\* ------------------------------------------------------------------------
\* Bytes are not stored one by one.  The bytes of an extent <<off, len>> are
\* named by a content: the content of the file data the volume layout puts
\* at exactly that extent, or else a content proper to the extent.
Max(a, b) == IF a >= b THEN a ELSE b

Named(c) == <<c, 0, 0>>
Raw(off, len) == <<"raw", off, len>>
ZeroContent == Named("zero")

\* hashlib.sha256 / hashlib.md5: equal digests for equal bytes only
Sha256(content) == <<"sha256", content>>
Md5(content) == <<"md5", content>>
EmptyHash == <<"", Named("")>>

NoDrive == [fs |-> "none"]
IdleCarve == [offset |-> 0, buflen |-> 0, sig |-> 1, search_start |-> 0,
              found_hashes |-> {}, found_offsets |-> {},
              total_recovered_size |-> 0, bytes_scanned |-> 0]
IdleRec == [pc |-> "off", file_list |-> <<>>, idx |-> 0, results |-> <<>>,
            recovered_count |-> 0, failed_count |-> 0, written |-> <<>>,
            faulty |-> FALSE, aborted |-> FALSE]
NoReport == [of |-> "none"]
NoWebsocket == [active_connections |-> <<>>, pc |-> "off"]

\* no recovery job: at_cancel is the number of files in the output directory
\* when cancel_recovery was first called on the running job, -1 before that
IdleRecovery ==
    [pc |-> "off", status |-> "none", progress |-> 0, files_recovered |-> 0,
     sent |-> -1, regular |-> <<>>, i |-> 0, copied |-> {}, at_cancel |-> -1]

IdleWalk == [pc |-> "off", n |-> 0, pos |-> 0, scanned |-> 0,
             cancellable |-> FALSE, cancelled |-> FALSE, since_cancel |-> 0,
             progress |-> -1]

\* outcome of drive_handle.read(n) at position pos: the number of bytes
\* returned, or -1 when the read raises.  Win32FileWrapper.read turns every
\* error into b''; the plain file object of _open_drive lets it propagate.
ReadAt(d, pos, n) ==
    IF \E b \in d.bad : pos < b[2] /\ pos + n > b[1]
    THEN IF d.handle = "win32" THEN 0 ELSE -1
    ELSE Max(0, Min(n, d.size - pos))

\* ------------------------------------------------------------------------
\* python_recovery_service.py: _recover_ntfs_deleted_files
\* ------------------------------------------------------------------------
MftEntrySize == 1024
CancelCheckEvery == 100
ProgressEvery == 1000
DefaultEstimatedEntries == 1000000
MaxEstimatedEntries == 5000000
MinRecordSize == 100
MaxNonResidentSize == 104857600

\* MFT records of the modelled volumes
SmallMftEntries == 205
LargeMftEntries == 1003

\* an MFT record: its first four bytes, its flags word (bit 0 in use, bit 1
\* directory), whether it has a FILE_NAME attribute, and its unnamed DATA
OtherEntry == [magic |-> "", flags |-> 0, name |-> FALSE, data |-> "none",
               len |-> 0, content |-> "", where |-> 0]
InUseEntry == [OtherEntry EXCEPT !.magic = "FILE", !.flags = 1, !.name = TRUE]
DirectoryEntry == [OtherEntry EXCEPT !.magic = "FILE", !.flags = 2, !.name = TRUE]
\* a deleted file whose unnamed DATA attribute is resident at byte `where`
\* of the record
ResidentEntry(content, len, where) ==
    [magic |-> "FILE", flags |-> 0, name |-> TRUE, data |-> "resident",
     len |-> len,
     content |-> content, where |-> where]
\* a deleted file whose data is one run starting at cluster `where`
NonResidentEntry(content, len, where) ==
    [magic |-> "FILE", flags |-> 0, name |-> TRUE, data |-> "nonresident",
     len |-> len,
     content |-> content, where |-> where]

MftOffset(d) == d.mft_cluster * d.bytes_per_cluster
EntryOffset(d, k) == MftOffset(d) + k * MftEntrySize

\* where the layout of an NTFS volume puts file data
NtfsBlobs(d) ==
    {[off |-> IF d.mft[k].data = "resident"
              THEN EntryOffset(d, k) + d.mft[k].where
              ELSE d.mft[k].where * d.bytes_per_cluster,
      len |-> d.mft[k].len, content |-> d.mft[k].content] :
        k \in {x \in DOMAIN d.mft : d.mft[x].data # "none"}}

\* the bytes at <<off, len>> of a device with file data at `blobs`
DeviceDataOf(blobs, off, len) ==
    IF \E b \in blobs : b.off = off /\ b.len = len
    THEN Named((CHOOSE b \in blobs : b.off = off /\ b.len = len).content)
    ELSE Raw(off, len)

NtfsVolume(entries, handle, bad, mft) ==
    [fs |-> "ntfs", handle |-> handle, bad |-> bad, bytes_per_cluster |-> 4096,
     mft_cluster |-> 4, mft |-> mft,
     size |-> 4 * 4096 + entries * MftEntrySize]

\* the MFT record at handle position pos
EntryAt(d, pos) ==
    IF \E k \in DOMAIN d.mft : EntryOffset(d, k) = pos
    THEN d.mft[CHOOSE k \in DOMAIN d.mft : EntryOffset(d, k) = pos]
    ELSE OtherEntry

\* estimated_entries (line 777)
EstimatedEntries(d) ==
    Min(IF d.size > 0 THEN d.size \div MftEntrySize
        ELSE DefaultEstimatedEntries, MaxEstimatedEntries)

\* _parse_ntfs_entry_improved on the record read at pos: whether a file
\* name was found, the data, and where the shared handle is left
ParseNtfsEntry(d, e, pos) ==
    LET next == pos + MftEntrySize
    IN CASE e.data = "resident" ->
              IF e.len > 0 /\ e.where + e.len <= MftEntrySize
              THEN [name |-> e.name, len |-> e.len,
                    content |-> DeviceDataOf(NtfsBlobs(d), pos + e.where, e.len),
                    pos |-> next]
              ELSE [name |-> e.name, len |-> 0, content |-> Named(""),
                    pos |-> next]
         [] e.data = "nonresident"
            /\ e.len > 0 /\ e.len <= MaxNonResidentSize /\ e.where # 0 ->
              LET at == e.where * d.bytes_per_cluster
                  got == ReadAt(d, at, e.len)
              IN IF got > 0
                 THEN [name |-> e.name, len |-> got,
                       content |-> DeviceDataOf(NtfsBlobs(d), at, got),
                       pos |-> at + got]
                 ELSE [name |-> e.name, len |-> 0, content |-> Named(""),
                       pos |-> at]
         [] OTHER -> [name |-> e.name, len |-> 0, content |-> Named(""),
                      pos |-> next]

\* lines 861-882
NtfsRecord(d, n, f) ==
    [offset |-> MftOffset(d) + n * MftEntrySize, size |-> f.len,
     md5 |-> Md5(f.content), sha256 |-> Sha256(f.content),
     status |-> "indexed", drive_path |-> "physical", method |-> "normal_scan_mft",
     is_partial |-> FALSE]

\* line 888
NtfsProgress(d, scanned) ==
    Min((scanned * Pct(100)) \div EstimatedEntries(d), Pct(99))

\* the loop is left: final progress update (lines 924-932), return
NtfsFinish(w) ==
    /\ walk' = [w EXCEPT !.pc = "done", !.progress = Pct(100)]
    /\ UNCHANGED recovered_files

\* is_cancelled() becomes true
SetCancelFlag ==
    /\ walk.pc = "run"
    /\ walk.cancellable /\ ~walk.cancelled
    /\ walk' = [walk EXCEPT !.cancelled = TRUE]
    /\ UNCHANGED <<scenario, svars, report, websocket, recovery, drive, recovered_files, carve, rec>>

\* the flag tests of the walk, with the signature test left out
IsDeletedFileAnyMagic(e) == e.flags % 2 = 0 /\ (e.flags \div 2) % 2 = 0

\* the signature and flag tests of the walk: "FILE", not in use (0x01), not a
\* directory (0x02)
IsDeletedFile(e) ==
    e.magic = "FILE" /\ e.flags % 2 = 0 /\ (e.flags \div 2) % 2 = 0

\* one iteration of the loop over range(estimated_entries).  The loop never
\* seeks: a read that raises leaves the handle where it was, so the next
\* iteration reads the same record again.
NtfsWalkEntry ==
    /\ scenario = "ntfs" /\ walk.pc = "run"
    /\ LET n == walk.n
           got == ReadAt(drive, walk.pos, MftEntrySize)
           counted == [walk EXCEPT !.since_cancel =
                          IF walk.cancelled THEN @ + 1 ELSE @]
           read == [counted EXCEPT !.scanned = @ + 1]
           e == EntryAt(drive, walk.pos)
           f == ParseNtfsEntry(drive, e, walk.pos)
           skipped == [read EXCEPT !.n = n + 1,
                                  !.pos = walk.pos + MftEntrySize]
       IN IF n >= EstimatedEntries(drive)
          THEN NtfsFinish(walk)
          ELSE IF got = -1                      \* except Exception: continue
          THEN walk' = [counted EXCEPT !.n = n + 1]
               /\ UNCHANGED recovered_files
          ELSE IF got < MftEntrySize            \* end of MFT
          THEN NtfsFinish([counted EXCEPT !.pos = walk.pos + got])
          ELSE IF n % CancelCheckEvery = 0 /\ walk.cancelled
          THEN NtfsFinish(skipped)
          ELSE IF ~IsDeletedFile(e)
          THEN walk' = skipped /\ UNCHANGED recovered_files
          ELSE IF ~f.name \/ f.len < MinRecordSize \/ f.content = ZeroContent
          THEN walk' = [skipped EXCEPT !.pos = f.pos]
               /\ UNCHANGED recovered_files
          ELSE /\ recovered_files' =
                      Append(recovered_files, NtfsRecord(drive, n, f))
               /\ walk' = [skipped EXCEPT
                              !.pos = f.pos,
                              !.progress =
                                  IF read.scanned % ProgressEvery = 0
                                  THEN NtfsProgress(drive, read.scanned)
                                  ELSE @]
    /\ UNCHANGED <<scenario, svars, report, websocket, recovery, drive, carve, rec>>

\* the volumes and options the NTFS walk is explored on; BadRecord is the
\* extent of an unreadable MFT record
BadRecordNumber == 100
BadRecord == <<4 * 4096 + BadRecordNumber * MftEntrySize,
               4 * 4096 + (BadRecordNumber + 1) * MftEntrySize>>

NtfsMft(ca, cb, nonresident) ==
    (0 :> InUseEntry) @@ (1 :> DirectoryEntry)
    @@ (2 :> ResidentEntry(ca, 300, 336))
    @@ (3 :> ResidentEntry(cb, 300, 336))
    @@ (4 :> ResidentEntry("small", 50, 336))
    @@ (5 :> ResidentEntry("zero", 300, 336))
    @@ (6 :> [ResidentEntry("noname", 300, 336) EXCEPT !.name = FALSE])
    @@ (IF nonresident THEN 7 :> NonResidentEntry("big", 5000, 1)
        ELSE 7 :> OtherEntry)
    @@ (8 :> NonResidentEntry("huge", MaxNonResidentSize + 1, 2))
    @@ (9 :> [ResidentEntry("baad", 300, 336) EXCEPT !.magic = "BAAD"])
    @@ (999 :> ResidentEntry("late", 300, 336))

NtfsInit ==
    /\ scenario = "ntfs"
    /\ \/ /\ \E handle \in {"win32", "file"}, bad \in {{}, {BadRecord}} :
               drive = NtfsVolume(SmallMftEntries, handle, bad,
                                  NtfsMft("a", "b", FALSE))
          /\ walk = [IdleWalk EXCEPT !.pc = "run", !.cancellable = TRUE,
                                     !.pos = MftOffset(drive)]
       \/ /\ \E ca \in {"a", "b"}, cb \in {"a", "b"}, nr \in BOOLEAN :
               drive = NtfsVolume(LargeMftEntries, "win32", {},
                                  NtfsMft(ca, cb, nr))
          /\ walk = [IdleWalk EXCEPT !.pc = "run",
                                     !.pos = MftOffset(drive)]
    /\ recovered_files = <<>>
    /\ carve = IdleCarve
    /\ rec = IdleRec
    /\ recovery = IdleRecovery
    /\ report = NoReport
    /\ websocket = NoWebsocket
    /\ ServiceIdle

\* ------------------------------------------------------------------------
\* python_recovery_service.py: _parse_ntfs_entry_improved, the attribute walk
\* ------------------------------------------------------------------------
\* An MFT entry is its first-attribute offset and the attributes laid out
\* from there one after the other; the bytes behind the last one are zero.
\* Of an attribute the walk reads the type, the length, the non-resident
\* flag, the content offset and length and, of a FILE_NAME, the name length.
FileNameHeaderLen == 66

MaxAttributes == 3

Attribute(type, length, non_resident, content_offset, content_len, fn_length) ==
    [type |-> type, length |-> length, non_resident |-> non_resident,
     content_offset |-> content_offset, content_len |-> content_len,
     fn_length |-> fn_length]

ZeroAttribute == Attribute("zero", 0, FALSE, 0, 0, 0)

AttributeKinds ==
    {Attribute("standard_information", 96, FALSE, 24, 72, 0),
     Attribute("file_name", 104, FALSE, 24, FileNameHeaderLen + 16, 8),
     Attribute("file_name", 64, FALSE, 24, 32, 0),
     Attribute("file_name", 104, FALSE, 1000, FileNameHeaderLen + 16, 8),
     Attribute("file_name", 104, TRUE, 24, FileNameHeaderLen + 16, 8),
     Attribute("data", 72, FALSE, 24, 40, 0),
     Attribute("data", 1000, FALSE, 24, 40, 0),
     Attribute("data", 2000, FALSE, 24, 40, 0),
     Attribute("end", 0, FALSE, 0, 0, 0)}

\* the attribute whose header the bytes at offset hold
RECURSIVE AttributeAt(_, _, _)
AttributeAt(attrs, start, offset) ==
    IF attrs = <<>> THEN ZeroAttribute
    ELSE IF start = offset THEN Head(attrs)
    ELSE AttributeAt(Tail(attrs), start + Head(attrs).length, offset)

\* the two "continue" statements of the FILE_NAME branch
SkipsFileName(a, offset) ==
    \/ a.content_len < FileNameHeaderLen
    \/ offset + a.content_offset + FileNameHeaderLen > MftEntrySize

\* one pass through the body of "while offset < len(mft_entry) - 4";
\* walk.pos is offset, walk.n counts the names decoded so far
ParseAttribute ==
    /\ scenario = "attributes"
    /\ walk.pc = "attributes"
    /\ LET offset == walk.pos
           first == drive.first_attr_offset
           a == AttributeAt(drive.attrs, first, offset)
           stop == \/ first >= MftEntrySize \/ first = 0
                   \/ offset >= MftEntrySize - 4
                   \/ a.type = "end"
                   \/ offset + 8 > MftEntrySize
                   \/ a.length = 0 \/ a.length > MftEntrySize
                   \/ offset + a.length > MftEntrySize
           resident_name == a.type = "file_name" /\ ~a.non_resident
           named == /\ a.fn_length > 0 /\ a.fn_length < 256
                    /\ offset + a.content_offset + FileNameHeaderLen
                           + 2 * a.fn_length <= MftEntrySize
       IN walk' = IF stop THEN [walk EXCEPT !.pc = "done"]
                  ELSE IF resident_name /\ SkipsFileName(a, offset)
                       THEN walk                                \* continue
                  ELSE [walk EXCEPT
                           !.pos = offset + a.length,
                           !.n = IF resident_name /\ named THEN @ + 1 ELSE @]
    /\ UNCHANGED <<scenario, svars, report, websocket, recovery, drive, recovered_files, carve, rec>>

AttributesInit ==
    /\ scenario = "attributes"
    /\ \E first \in {0, 56, MftEntrySize} :
       \E n \in 0..MaxAttributes : \E attrs \in [1..n -> AttributeKinds] :
           /\ drive = [fs |-> "mft_entry", first_attr_offset |-> first,
                       attrs |-> attrs]
           /\ walk = [IdleWalk EXCEPT !.pc = "attributes", !.pos = first]
    /\ recovered_files = <<>>
    /\ carve = IdleCarve
    /\ rec = IdleRec
    /\ recovery = IdleRecovery
    /\ report = NoReport
    /\ websocket = NoWebsocket
    /\ ServiceIdle

\* ------------------------------------------------------------------------
\* python_recovery_service.py: _parse_data_runs, _read_data_runs
\* ------------------------------------------------------------------------
\* data runs one $DATA attribute holds at most
MaxRuns == 2

\* the runs list of _parse_data_runs, read from run k of the bytes on.  An
\* encoded run is the nibbles of its header byte, its length field, and its
\* offset field as the unsigned little-endian number its bytes spell, which
\* int.from_bytes(offset_bytes, 'little', signed=True) reads as run_offset.
RECURSIVE ParseDataRuns(_, _, _, _, _)
ParseDataRuns(b, len, k, position, current_offset) ==
    IF k > Len(b) \/ position >= len THEN <<>>
    ELSE LET length_size == b[k].length_size
             offset_size == b[k].offset_size
             next == position + 1 + length_size + offset_size
             run_offset ==
                 IF b[k].field >= 2 ^ (8 * offset_size - 1)
                 THEN b[k].field - 2 ^ (8 * offset_size)
                 ELSE b[k].field
             moved == current_offset + run_offset
         IN  IF length_size = 0 /\ offset_size = 0 THEN <<>>
             ELSE IF length_size = 0 \/ next > len THEN <<>>
             ELSE IF offset_size > 0
             THEN <<<<moved, b[k].run_length>>>>
                  \o ParseDataRuns(b, len, k + 1, next, moved)
             ELSE <<<<0, b[k].run_length>>>>
                  \o ParseDataRuns(b, len, k + 1, next, current_offset)

\* _parse_ntfs_entry_improved hands the runs of a non-resident $DATA
\* attribute to _parse_data_runs
ParseRuns ==
    /\ scenario = "data_runs"
    /\ report.pc = "parse"
    /\ report' = [report EXCEPT
           !.pc = "read",
           !.data_runs = ParseDataRuns(drive.data_runs_bytes, drive.len,
                                       1, 0, 0)]
    /\ UNCHANGED <<scenario, svars, websocket, recovery, drive, walk, recovered_files, carve, rec>>

\* one turn of the loop of _read_data_runs: a piece of file_data is
\* [run, from, at, len], from "zeros" or from the "device" at byte `at`
ReadDataRun ==
    /\ scenario = "data_runs"
    /\ report.pc = "read"
    /\ LET i == report.i + 1
           left == drive.file_size - report.bytes_read
       IN  IF i > Len(report.data_runs)
           THEN report' = [report EXCEPT !.pc = "done"]
           ELSE LET cluster_offset == report.data_runs[i][1]
                    wanted == Min(report.data_runs[i][2]
                                      * drive.bytes_per_cluster, left)
                    byte_offset == cluster_offset * drive.bytes_per_cluster
                    got == ReadAt(drive, byte_offset, wanted)
                    read == IF cluster_offset = 0 THEN wanted ELSE got
                    piece == IF cluster_offset = 0
                             THEN [run |-> i, from |-> "zeros", at |-> 0,
                                   len |-> wanted]
                             ELSE [run |-> i, from |-> "device",
                                   at |-> byte_offset, len |-> got]
                IN  IF cluster_offset # 0 /\ (byte_offset < 0 \/ got < 0)
                    THEN report' = [report EXCEPT !.pc = "done", !.i = i]
                    ELSE report' = [report EXCEPT
                             !.i = i,
                             !.file_data = Append(@, piece),
                             !.bytes_read = @ + read,
                             !.pc = IF report.bytes_read + read
                                        >= drive.file_size
                                    THEN "done" ELSE "read"]
    /\ UNCHANGED <<scenario, svars, websocket, recovery, drive, walk, recovered_files, carve, rec>>

\* the offset fields tried: one byte, 5, 3, -5 (0xFB) and 0; and no field.
\* The attribute ends after the end marker that follows the runs, or one byte
\* early.
DataRunsInit ==
    /\ scenario = "data_runs"
    /\ \E n \in 1..MaxRuns :
       \E b \in [1..n -> [length_size : {1}, offset_size : {1},
                          run_length : {1}, field : {5, 251, 0}]
                      \cup {[length_size |-> 1, offset_size |-> 1,
                              run_length |-> 2, field |-> 3],
                             [length_size |-> 1, offset_size |-> 0,
                              run_length |-> 1, field |-> 0],
                             [length_size |-> 0, offset_size |-> 1,
                              run_length |-> 0, field |-> 5]}] :
       \E cut \in {0, 1}, clusters \in {1, 8} :
           LET RECURSIVE EncodedLen(_)
               EncodedLen(k) ==
                   IF k = 0 THEN 0
                   ELSE 1 + b[k].length_size + b[k].offset_size
                        + EncodedLen(k - 1)
           IN
           drive = [fs |-> "ntfs", handle |-> "file", bad |-> {},
                    bytes_per_cluster |-> 4096, size |-> 16 * 4096,
                    data_runs_bytes |-> b, len |-> EncodedLen(n) + 1 - cut,
                    file_size |-> clusters * 4096 - 96]
    /\ walk = IdleWalk
    /\ recovered_files = <<>>
    /\ carve = IdleCarve
    /\ rec = IdleRec
    /\ recovery = IdleRecovery
    /\ report = [of |-> "data_runs", pc |-> "parse", data_runs |-> <<>>,
                 i |-> 0, file_data |-> <<>>, bytes_read |-> 0]
    /\ websocket = NoWebsocket
    /\ ServiceIdle

\* ------------------------------------------------------------------------
\* python_recovery_service.py: _recover_from_fat32
\* ------------------------------------------------------------------------
MaxClusters == 1000
FatProgressEvery == 100
DirEntrySize == 32
DeletedMarker == 229
MaxFatReadSize == 52428800
FirstDataCluster == 2

\* clusters of the data region the modelled FAT32 volume has
FatVolumeClusters == 950

FatVolume(clusters, handle, bad, dir) ==
    [fs |-> "fat32", handle |-> handle, bad |-> bad, bytes_per_sector |-> 512,
     sectors_per_cluster |-> 8, reserved_sectors |-> 32, num_fats |-> 2,
     sectors_per_fat |-> 8, dir |-> dir,
     size |-> 32 * 512 + 2 * 8 * 512 + clusters * 8 * 512]

BytesPerCluster(d) == d.bytes_per_sector * d.sectors_per_cluster
FatOffset(d) == d.reserved_sectors * d.bytes_per_sector
DataOffset(d) == FatOffset(d) + d.num_fats * d.sectors_per_fat * d.bytes_per_sector
ClusterOffset(d, cluster_num) == DataOffset(d) + cluster_num * BytesPerCluster(d)
\* _read_fat_clusters: cluster 2 is at data_offset
FatDataOffset(d, start_cluster) ==
    DataOffset(d) + (start_cluster - FirstDataCluster) * BytesPerCluster(d)

\* a 32-byte directory entry: first byte, attribute bits, size, start cluster
DirEntry(first, attr, size, start_cluster, content) ==
    [first |-> first, attr |-> attr, file_size |-> size,
     start_cluster |-> start_cluster, content |-> content]

FatBlobs(d) ==
    {[off |-> FatDataOffset(d, d.dir[k].start_cluster),
      len |-> d.dir[k].file_size, content |-> d.dir[k].content] :
        k \in {x \in DOMAIN d.dir : d.dir[x].content # ""}}

\* _read_fat_clusters: the data, or nothing when the read fails or is empty
ReadFatClusters(d, start_cluster, file_size) ==
    LET at == FatDataOffset(d, start_cluster)
        got == ReadAt(d, at, file_size)
    IN IF got > 0 THEN [len |-> got, content |-> DeviceDataOf(FatBlobs(d), at, got)]
       ELSE [len |-> 0, content |-> Named("")]

\* lines 1823-1843
FatRecord(d, cluster_num, entry_index, f) ==
    [offset |-> ClusterOffset(d, cluster_num) + entry_index * DirEntrySize,
     size |-> f.len, md5 |-> Md5(f.content), sha256 |-> Sha256(f.content),
     status |-> "indexed", drive_path |-> "letter", method |-> "fat32_directory"]

\* the inner loop over the directory entries of one cluster, from entry
\* index `from` on: the records it appends
RECURSIVE FatClusterRecords(_, _, _)
FatClusterRecords(d, cluster_num, from) ==
    LET here == {k \in DOMAIN d.dir : k[1] = cluster_num /\ k[2] >= from}
    IN IF here = {} THEN <<>>
       ELSE LET k == CHOOSE x \in here : \A y \in here : x[2] <= y[2]
                e == d.dir[k]
                f == ReadFatClusters(d, e.start_cluster,
                                     Min(e.file_size, MaxFatReadSize))
                emitted ==
                    /\ e.first = DeletedMarker
                    /\ e.attr \notin {"directory", "volume_label"}
                    /\ e.file_size >= MinRecordSize
                    /\ e.start_cluster >= FirstDataCluster
                    /\ f.len >= MinRecordSize
                    /\ f.content # ZeroContent
            IN (IF emitted THEN <<FatRecord(d, cluster_num, k[2], f)>>
                ELSE <<>>)
               \o FatClusterRecords(d, cluster_num, k[2] + 1)

\* line 1857
FatProgress(cluster_num) ==
    Min((cluster_num * Pct(100)) \div MaxClusters, Pct(99))

\* one iteration of the loop over range(max_clusters)
FatWalkCluster ==
    /\ scenario = "fat32" /\ walk.pc = "run"
    /\ LET n == walk.n
           got == ReadAt(drive, ClusterOffset(drive, n), BytesPerCluster(drive))
           counted == [walk EXCEPT !.since_cancel =
                          IF walk.cancelled THEN @ + 1 ELSE @,
                                   !.scanned = @ + 1, !.n = n + 1]
       IN IF n >= MaxClusters \/ walk.cancelled
          THEN walk' = [walk EXCEPT !.pc = "done"]
               /\ UNCHANGED recovered_files
          ELSE IF got < DirEntrySize            \* raised, empty or short
          THEN walk' = counted /\ UNCHANGED recovered_files
          ELSE /\ recovered_files' =
                      recovered_files \o FatClusterRecords(drive, n, 0)
               /\ walk' = [counted EXCEPT
                              !.progress = IF n % FatProgressEvery = 0
                                           THEN FatProgress(n) ELSE @]
    /\ UNCHANGED <<scenario, svars, report, websocket, recovery, drive, carve, rec>>

\* the volumes the FAT32 walk is explored on
FatDir(ca, cb) ==
    (<<0, 0>> :> DirEntry(65, "archive", 300, 9, ""))
    @@ (<<0, 1>> :> DirEntry(DeletedMarker, "archive", 300, 10, ca))
    @@ (<<0, 2>> :> DirEntry(DeletedMarker, "archive", 300, 11, cb))
    @@ (<<0, 3>> :> DirEntry(DeletedMarker, "directory", 0, 12, ""))
    @@ (<<0, 4>> :> DirEntry(DeletedMarker, "archive", 50, 13, "small"))
    @@ (<<0, 5>> :> DirEntry(DeletedMarker, "archive", 300, 0, ""))
    @@ (<<0, 6>> :> DirEntry(DeletedMarker, "archive", 300, 14, "zero"))
    @@ (<<0, 7>> :> DirEntry(DeletedMarker, "volume_label", 300, 16, "label"))
    @@ (<<150, 0>> :> DirEntry(DeletedMarker, "archive", 300, 15, "late"))

BadCluster == <<32 * 512 + 2 * 8 * 512 + 100 * 8 * 512,
                32 * 512 + 2 * 8 * 512 + 101 * 8 * 512>>

Fat32Init ==
    /\ scenario = "fat32"
    /\ \E cb \in {"a", "b"}, hb \in {<<"win32", {}>>, <<"win32", {BadCluster}>>,
                                     <<"file", {BadCluster}>>} :
           drive = FatVolume(FatVolumeClusters, hb[1], hb[2], FatDir("a", cb))
    /\ walk = [IdleWalk EXCEPT !.pc = "run", !.cancellable = TRUE]
    /\ recovered_files = <<>>
    /\ carve = IdleCarve
    /\ rec = IdleRec
    /\ recovery = IdleRecovery
    /\ report = NoReport
    /\ websocket = NoWebsocket
    /\ ServiceIdle

\* ------------------------------------------------------------------------
\* python_recovery_service.py: _carve_files
\* ------------------------------------------------------------------------
ChunkSize == 1048576
KeepBuffer == 100000
OffsetWindow == 512
MinCarvedSize == 4096
SectorSize == 512
MaxProgressWhileScanning == 99900
Mp3Cap == 5242880
DefaultCap == 1048576
MaxRecoveryKiB == 20971520
IsoSignatureOffset == 32769

\* size in bytes of the device the Carver is explored on
CarveDriveSize == 2621440

\* the modelled part of FileSignature.SIGNATURES, in table order
Signatures == <<"jpg", "mp3", "iso">>
HeaderLen(sig) == CASE sig = "jpg" -> 3 [] sig = "mp3" -> 2 [] OTHER -> 5
HasFooter(sig) == sig = "jpg"
SigOffset(sig) == IF sig = "iso" THEN IsoSignatureOffset ELSE 0

\* a header occurrence on the device: where the header bytes are, where
\* the first footer after it ends (0: none), the content of the file that
\* lies there when it is a whole file, and the verdict of
\* _validate_file_with_score on the extracted data (score >= 70)
Header(sig, pos, stop, content, valid) ==
    [sig |-> sig, pos |-> pos, stop |-> stop, content |-> content,
     valid |-> valid]

CarveBlobs(d) ==
    {[off |-> h.pos, len |-> h.stop - h.pos, content |-> h.content] :
        h \in {x \in d.headers : x.content # ""}}

\* buffer.find(header, search_start, len(buffer) - 100000) with Python's
\* reading of a negative end index; positions relative to the buffer
SearchEnd(buflen) ==
    IF buflen >= KeepBuffer THEN buflen - KeepBuffer
    ELSE Max(0, 2 * buflen - KeepBuffer)

Hits(d, c, sig, from) ==
    {h \in d.headers :
        /\ h.sig = sig
        /\ h.pos - c.offset >= from
        /\ h.pos - c.offset + HeaderLen(sig) <= SearchEnd(c.buflen)}

\* signatures_to_scan: every signature with a header in deep mode, the
\* important ones in carving mode with no category selected
Important(sig) == sig # "iso"
SignaturesToScan(scan_type) ==
    IF scan_type = "deep" THEN Signatures
    ELSE SelectSeq(Signatures, Important)

\* the signature loop at or after c.sig that still finds a header, with the
\* search of later loops starting at 0; 0 when none does
RECURSIVE NextSig(_, _, _, _)
NextSig(d, c, k, from) ==
    IF k > Len(SignaturesToScan(d.scan_type)) THEN 0
    ELSE IF Hits(d, c, SignaturesToScan(d.scan_type)[k], from) # {} THEN k
    ELSE NextSig(d, c, k + 1, 0)

\* _extract_file with the caps of the signature alone, not the buffer end
ExtractLenIgnoresBuffer(h, at, buf_end) ==
    IF HasFooter(h.sig)
    THEN IF h.stop # 0 THEN h.stop - at ELSE 0
    ELSE IF h.sig = "mp3" THEN Mp3Cap
    ELSE DefaultCap

\* _extract_file on the buffer from actual position `at` (absolute): the
\* length of the data, 0 when nothing is returned
ExtractLen(h, at, buf_end) ==
    IF HasFooter(h.sig)
    THEN IF h.stop # 0 /\ h.stop <= buf_end THEN h.stop - at ELSE 0
    ELSE IF h.sig = "mp3" THEN Min(at + Mp3Cap, buf_end) - at
    ELSE Min(at + DefaultCap, buf_end) - at

\* a Carver without the size check of line 2385
OverRecoveryCapNever(d, scan_type, total) == FALSE

\* max_total_recovery_size is exceeded (lines 2219-2223, 2385)
OverRecoveryCap(d, scan_type, total) ==
    /\ scan_type # "deep"
    /\ \/ total > d.size * 2
       \/ (total - 1) \div 1024 >= MaxRecoveryKiB

\* lines 2406-2424 and 2444-2462
CarveRecord(scan_type, absolute_pos, len, content) ==
    [offset |-> absolute_pos, size |-> len, md5 |-> Md5(content),
     sha256 |-> Sha256(content),
     status |-> IF scan_type = "deep" THEN "indexed" ELSE "recovered",
     drive_path |-> "physical",
     method |-> IF scan_type = "deep" THEN "deep_scan_index"
                ELSE "signature_carving"]

\* progress_pct of line 2265, capped as at line 2278
CarveProgress(d, bytes_scanned) ==
    LET total_sectors == d.size \div SectorSize
    IN Min(IF total_sectors > 0
           THEN ((bytes_scanned \div SectorSize) * Pct(100)) \div total_sectors
           ELSE 0, MaxProgressWhileScanning)

\* the loop is left: final progress update (lines 2542-2553), return
CarveFinish(w) ==
    /\ walk' = [w EXCEPT !.pc = "done", !.progress = Pct(100)]
    /\ UNCHANGED <<recovered_files, carve>>

\* top of the outer loop: cancellation check, read of the next chunk,
\* progress report when a second has passed since the last one
CarveReadChunk ==
    /\ scenario = "carve" /\ walk.pc = "run"
    /\ LET remaining == drive.size - carve.bytes_scanned
           to_read == IF drive.size > 0 THEN Min(ChunkSize, remaining)
                      ELSE ChunkSize
           got == ReadAt(drive, walk.pos, to_read)
           counted == [walk EXCEPT !.since_cancel =
                          IF walk.cancelled THEN @ + 1 ELSE @]
       IN IF walk.cancelled \/ (drive.size > 0 /\ remaining <= 0)
          THEN CarveFinish(walk)
          ELSE IF got <= 0
          THEN CarveFinish(counted)
          ELSE \E second_passed \in BOOLEAN :
                 /\ carve' = [carve EXCEPT
                                !.buflen = @ + got, !.bytes_scanned = @ + got,
                                !.sig = 1, !.search_start = 0]
                 /\ walk' = [counted EXCEPT
                                !.pc = "scan", !.n = @ + 1, !.pos = @ + got,
                                !.scanned = (carve.bytes_scanned + got)
                                             \div SectorSize,
                                !.progress =
                                    IF second_passed
                                    THEN CarveProgress(drive,
                                             carve.bytes_scanned + got)
                                    ELSE @]
                 /\ UNCHANGED recovered_files
    /\ UNCHANGED <<scenario, svars, report, websocket, recovery, drive, rec>>

\* the buffer is cut to its last 100000 bytes; back to the outer loop
CarveTrim(c) ==
    IF c.buflen > KeepBuffer
    THEN [c EXCEPT !.offset = @ + c.buflen - KeepBuffer, !.buflen = KeepBuffer]
    ELSE c

\* the signature loops up to and including the handling of the next header
\* found; when is_cancelled() holds or no loop finds a header, the chunk is
\* done
CarveNextHeader ==
    /\ scenario = "carve" /\ walk.pc = "scan"
    /\ LET k == NextSig(drive, carve, carve.sig, carve.search_start)
       IN IF walk.cancelled \/ k = 0
          THEN /\ carve' = CarveTrim(carve)
               /\ walk' = [walk EXCEPT !.pc = "run"]
               /\ UNCHANGED recovered_files
          ELSE LET sig == SignaturesToScan(drive.scan_type)[k]
                   from == IF k = carve.sig THEN carve.search_start ELSE 0
                   hits == Hits(drive, carve, sig, from)
                   h == CHOOSE x \in hits : \A y \in hits : x.pos <= y.pos
                   pos == h.pos - carve.offset
                   absolute_pos == h.pos
                   actual_pos == pos - SigOffset(sig)
                   at == carve.offset + actual_pos
                   len == ExtractLen(h, at, carve.offset + carve.buflen)
                   content == DeviceDataOf(CarveBlobs(drive), at, len)
                   on == [carve EXCEPT !.sig = k, !.search_start = pos + 1]
                   taken == [on EXCEPT
                               !.found_hashes = @ \cup {Md5(content)},
                               !.found_offsets = @ \cup {absolute_pos},
                               !.total_recovered_size = @ + len]
                   skip == carve' = on /\ UNCHANGED recovered_files
               IN /\ walk' = walk
                  /\ IF \E o \in carve.found_offsets :
                            absolute_pos - o < OffsetWindow
                            /\ o - absolute_pos < OffsetWindow
                     THEN skip
                     ELSE IF SigOffset(sig) > 0 /\ pos < SigOffset(sig)
                     THEN skip
                     ELSE IF len < MinCarvedSize \/ ~h.valid
                     THEN skip
                     ELSE IF Md5(content) \in carve.found_hashes
                     THEN skip
                     ELSE IF OverRecoveryCap(drive, drive.scan_type,
                                             taken.total_recovered_size)
                     THEN /\ carve' = [taken EXCEPT !.sig = k + 1,
                                                    !.search_start = 0]
                          /\ UNCHANGED recovered_files
                     ELSE \E written \in IF drive.scan_type = "deep"
                                         THEN {TRUE} ELSE BOOLEAN :
                            /\ carve' = taken
                            /\ recovered_files' =
                                   IF written
                                   THEN Append(recovered_files,
                                               CarveRecord(drive.scan_type,
                                                   absolute_pos, len, content))
                                   ELSE recovered_files
    /\ UNCHANGED <<scenario, svars, report, websocket, recovery, drive, rec>>

\* the devices and options the Carver is explored on
CarveHeaders(cb, iso_valid) ==
    {Header("jpg", 8192, 14192, "a", TRUE),
     Header("jpg", 40960, 46960, cb, TRUE),
     Header("jpg", 41060, 46960, "", TRUE),
     Header("jpg", 102400, 103400, "small", TRUE),
     Header("jpg", 204800, 210800, "corrupt", FALSE),
     Header("jpg", 307200, 0, "", TRUE),
     Header("mp3", 8000, 0, "", TRUE),
     Header("mp3", 950000, 0, "", TRUE),
     Header("mp3", 960000, 0, "", TRUE),
     Header("mp3", 970000, 0, "", TRUE),
     Header("mp3", 1100000, 0, "", TRUE),
     Header("mp3", 1200000, 0, "", TRUE),
     Header("jpg", CarveDriveSize - 50000, CarveDriveSize - 44000, "tail",
            TRUE),
     Header("iso", IsoSignatureOffset - 1, 0, "", TRUE),
     Header("iso", 500000 + IsoSignatureOffset, 0, "", iso_valid)}

BadChunk == <<ChunkSize, ChunkSize + SectorSize>>

CarveInit ==
    /\ scenario = "carve"
    /\ \E scan_type \in {"deep", "carving"}, cb \in {"a", "b"},
          iso_valid \in BOOLEAN,
          hb \in {<<"win32", {}>>, <<"file", {BadChunk}>>} :
           drive = [fs |-> "carve", handle |-> hb[1], bad |-> hb[2],
                    size |-> CarveDriveSize, scan_type |-> scan_type,
                    headers |-> CarveHeaders(cb, iso_valid)]
    /\ walk = [IdleWalk EXCEPT !.pc = "run", !.cancellable = TRUE]
    /\ recovered_files = <<>>
    /\ carve = IdleCarve
    /\ rec = IdleRec
    /\ recovery = IdleRecovery
    /\ report = NoReport
    /\ websocket = NoWebsocket
    /\ ServiceIdle

\* ------------------------------------------------------------------------
\* python_recovery_service.py: recover_selected_files
\* ------------------------------------------------------------------------
\* longest client-supplied batch explored
MaxFiles == 2

Blobs(d) ==
    CASE d.fs = "ntfs" -> NtfsBlobs(d)
      [] d.fs = "fat32" -> FatBlobs(d)
      [] d.fs = "carve" -> CarveBlobs(d)
      [] OTHER -> d.blobs

\* an extractor that rounds the offset up to the next sector
AlignedOffsetRoundsUp(offset) ==
    ((offset + SectorSize - 1) \div SectorSize) * SectorSize

\* line 4669: (offset // SECTOR_SIZE) * SECTOR_SIZE
AlignedOffset(offset) == (offset \div SectorSize) * SectorSize

\* lines 4670-4673
AlignedReadSize(offset, size) ==
    LET total_read_size == offset - AlignedOffset(offset) + size
    IN ((total_read_size + SectorSize - 1) \div SectorSize) * SectorSize

\* lines 4667-4713: sector-aligned read at record.offset and the slice cut
\* from it: aligned is the length read (-1 when the read raises), start the
\* device position of the first byte of the slice, len its length
ExtractedData(d, f) ==
    LET aligned_offset == AlignedOffset(f.offset)
        offset_adjustment == f.offset - aligned_offset
        got == ReadAt(d, aligned_offset, AlignedReadSize(f.offset, f.size))
        start == aligned_offset + Max(0, offset_adjustment)
        len == Max(0, Min(offset_adjustment + f.size, got)
                      - Max(0, offset_adjustment))
    IN [aligned |-> got, start |-> start, len |-> len,
        content |-> DeviceDataOf(Blobs(d), start, len)]

Result(k, status, reason) == [file |-> k, status |-> status, reason |-> reason]

Failed(r, k, reason) ==
    [r EXCEPT !.failed_count = @ + 1,
              !.results = Append(@, Result(k, "failed", reason))]

\* the loop goes on to the next file, or returns after the last one
NextFile(r, k) ==
    [r EXCEPT !.idx = k,
              !.pc = IF k = Len(r.file_list) THEN "done" ELSE "run"]

\* except Exception as e (lines 4874-4896): count, result, progress report;
\* a raise in that report leaves the function through line 4908
Handler(r, k, cb_handler) ==
    IF cb_handler
    THEN [Failed(r, k, "exception") EXCEPT !.pc = "done", !.aborted = TRUE]
    ELSE NextFile(Failed(r, k, "exception"), k)

\* the progress report that follows every appended result
Report(r, k, cb_end, cb_handler) ==
    IF cb_end THEN Handler(r, k, cb_handler) ELSE NextFile(r, k)

\* lines 4777-4779
HashDiffers(expected_hash, content) ==
    expected_hash # EmptyHash /\ Sha256(content) # expected_hash

\* the body of the loop for file number k (1-based)
\* what the environment does to one iteration: the progress callback raises
\* at the start, after the result, or in the except handler; the drive
\* cannot be opened; the read raises; the output file cannot be written
Faults ==
    [cb_start : BOOLEAN, open_fails : BOOLEAN, read_raises : BOOLEAN,
     write_fails : BOOLEAN, cb_end : BOOLEAN, cb_handler : BOOLEAN]
NoFault ==
    [cb_start |-> FALSE, open_fails |-> FALSE, read_raises |-> FALSE,
     write_fails |-> FALSE, cb_end |-> FALSE, cb_handler |-> FALSE]

RecoverOne(r, d, k, x) ==
    LET f == r.file_list[k]
        data == ExtractedData(d, f)
        cb_start == x.cb_start
        open_fails == x.open_fails
        read_raises == x.read_raises
        write_fails == x.write_fails
        cb_end == x.cb_end
        cb_handler == x.cb_handler
        after(reason) == Report(Failed(r, k, reason), k, cb_end, cb_handler)
    IN IF cb_start THEN Handler(r, k, cb_handler)
       ELSE IF f.drive_path \in {"unknown", ""}
       THEN after("invalid_drive_path")
       ELSE IF open_fails THEN after("drive_open_failed")
       ELSE IF read_raises \/ data.aligned = -1 THEN after("read_failed")
       ELSE IF data.aligned = 0 THEN after("no_data_read")
       ELSE IF data.len = 0 THEN after("no_data_after_alignment")
       ELSE IF HashDiffers(f.sha256, data.content)
       THEN after("hash_mismatch")
       ELSE IF write_fails THEN after("write_failed")
       ELSE Report([r EXCEPT
                      !.recovered_count = @ + 1,
                      !.results = Append(@, Result(k, "recovered", "")),
                      !.written = Append(@, [file |-> k,
                                             content |-> data.content])],
                   k, cb_end, cb_handler)

\* recover_selected_files is called on the records a finished scan indexed
RecoverIndexed ==
    /\ scenario \in {"ntfs", "fat32", "carve"}
    /\ walk.pc = "done" /\ rec.pc = "off"
    /\ LET file_list == SelectSeq(recovered_files,
                                  LAMBDA f : f.status = "indexed")
       IN rec' = [rec EXCEPT !.file_list = file_list,
                             !.pc = IF file_list = <<>> THEN "done" ELSE "run"]
    /\ UNCHANGED <<scenario, svars, report, websocket, recovery, drive, walk, recovered_files, carve>>

\* one iteration of the loop over file_list
RecoverFile ==
    /\ scenario # "recovery_job"
    /\ rec.pc = "run"
    /\ \E x \in IF rec.faulty THEN Faults ELSE {NoFault} :
           rec' = RecoverOne(rec, drive, rec.idx + 1, x)
    /\ UNCHANGED <<scenario, svars, report, websocket, recovery, drive, walk, recovered_files, carve>>

\* the device and the records a client of /recover-selected may send
ClientDrive ==
    [fs |-> "plain", handle |-> "win32", bad |-> {}, size |-> 16384,
     blobs |-> {[off |-> 4096, len |-> 300, content |-> "a"],
                [off |-> 8292, len |-> 700, content |-> "b"]}]

ClientRecord(offset, size, sha256, drive_path) ==
    [offset |-> offset, size |-> size, md5 |-> EmptyHash, sha256 |-> sha256,
     status |-> "indexed", drive_path |-> drive_path, method |-> "unknown"]

ClientRecords ==
    {ClientRecord(4096, 300, Sha256(Named("a")), "physical"),
     ClientRecord(8292, 700, Sha256(Named("b")), "letter"),
     ClientRecord(4096, 300, Sha256(Named("b")), "physical"),
     ClientRecord(5000, 300, EmptyHash, "physical"),
     ClientRecord(4096, 300, Sha256(Named("a")), "unknown"),
     ClientRecord(8292, 0, Sha256(Named("b")), "physical"),
     ClientRecord(16384, 300, Sha256(Named("a")), "physical")}

FileLists ==
    UNION {[1..n -> ClientRecords] : n \in 1..MaxFiles}

RecoverInit ==
    /\ scenario = "recover"
    /\ drive = ClientDrive
    /\ walk = IdleWalk
    /\ recovered_files = <<>>
    /\ carve = IdleCarve
    /\ \E file_list \in FileLists, faulty \in BOOLEAN :
           rec = [IdleRec EXCEPT !.pc = "run", !.file_list = file_list,
                                 !.faulty = faulty]
    /\ recovery = IdleRecovery
    /\ report = NoReport
    /\ websocket = NoWebsocket
    /\ ServiceIdle

\* ------------------------------------------------------------------------
\* recovery_service.py: _run_recovery, cancel_recovery
\* ------------------------------------------------------------------------
\* The job's indexed files are rec.file_list, recovered by
\* recover_selected_files from the drive; recovery.regular tells for each
\* already-staged file whether its staged copy still exists.
MaxRegularFiles == 2

\* (idx / len(file_list)) * 100
IndexedProgress(idx, n) == (idx * Pct(100)) \div n

\* lines 179-181
RegularProgress(i, indexed, regular) ==
    LET base_progress ==
            IF indexed > 0
            THEN (indexed * Pct(100)) \div (indexed + regular) ELSE 0
    IN base_progress + ((i + 1) * (Pct(100) - base_progress)) \div regular

\* RecoveryService._broadcast_progress: the progress of the message sent
RecoveryBroadcast(r) == [r EXCEPT !.sent = Round2(r.progress)]

\* the files of the job found in the output directory
FilesWritten(r, e) == Len(e.written) + Cardinality(r.copied)

\* indexed_progress_callback
IndexedProgressCallback(r, progress, recovered) ==
    IF r.status = "cancelled" THEN r
    ELSE RecoveryBroadcast([r EXCEPT !.progress = progress,
                                     !.files_recovered = recovered])

\* lines 201-209: the status after the loops, and the last broadcast
RecoveryFinish(r) ==
    RecoveryBroadcast(
        [IF r.status = "cancelled" THEN r
         ELSE [r EXCEPT !.status = "completed", !.progress = Pct(100)]
         EXCEPT !.pc = "done"])

\* the staged files from number i on (0-based) whose copy exists
Staged(r, i) == {k \in i..(Len(r.regular) - 1) : r.regular[k + 1]}

\* the loop over regular_files from iteration i up to its next await: the
\* cancel check, "continue" over files whose staged copy is missing, the
\* copy of the next one (which may raise) and its progress update
RegularLoop(r, e, i, copy_fails) ==
    IF r.status = "cancelled" \/ Staged(r, i) = {} THEN RecoveryFinish(r)
    ELSE LET k == CHOOSE k \in Staged(r, i) : \A m \in Staged(r, i) : k <= m
         IN RecoveryBroadcast(
                [r EXCEPT
                    !.pc = "regular", !.i = k + 1,
                    !.copied = IF copy_fails THEN @ ELSE @ \cup {k},
                    !.files_recovered = IF copy_fails THEN @ ELSE @ + 1,
                    !.progress = RegularProgress(k, Len(e.file_list),
                                                 Len(r.regular))])

\* _run_recovery up to its first await
RunRecoveryBegin ==
    /\ scenario = "recovery_job" /\ recovery.pc = "begin"
    /\ IF rec.file_list # <<>>
       THEN recovery' = RecoveryBroadcast([recovery EXCEPT !.progress = 0,
                                                           !.pc = "file_start"])
       ELSE \E copy_fails \in BOOLEAN :
               recovery' = RegularLoop(recovery, rec, 0, copy_fails)
    /\ UNCHANGED <<scenario, svars, report, websocket, drive, walk, recovered_files, carve, rec>>

\* recover_selected_files: the progress report at the start of a file
IndexedFileStart ==
    /\ scenario = "recovery_job" /\ recovery.pc = "file_start"
    /\ recovery' =
           [IndexedProgressCallback(
                recovery, IndexedProgress(rec.idx, Len(rec.file_list)),
                rec.recovered_count)
            EXCEPT !.pc = "file_body"]
    /\ UNCHANGED <<scenario, svars, report, websocket, drive, walk, recovered_files, carve, rec>>

\* recover_selected_files: the file is read, checked and written and the
\* progress reported; after the last file the loop over regular_files is next
IndexedFileBody ==
    /\ scenario = "recovery_job" /\ recovery.pc = "file_body"
    /\ \E write_fails \in BOOLEAN :
         LET done == RecoverOne(rec, drive, rec.idx + 1,
                                [NoFault EXCEPT !.write_fails = write_fails])
             reported == IndexedProgressCallback(
                             recovery,
                             IndexedProgress(done.idx, Len(rec.file_list)),
                             done.recovered_count)
         IN /\ rec' = done
            /\ recovery' =
                   [reported EXCEPT
                       !.pc = IF done.pc = "done" THEN "regular"
                              ELSE "file_start"]
    /\ UNCHANGED <<scenario, svars, report, websocket, drive, walk, recovered_files, carve>>

\* _run_recovery: the next iteration of the loop over regular_files
RegularFile ==
    /\ scenario = "recovery_job" /\ recovery.pc = "regular"
    /\ \E copy_fails \in BOOLEAN :
           recovery' = RegularLoop(recovery, rec, recovery.i, copy_fails)
    /\ UNCHANGED <<scenario, svars, report, websocket, drive, walk, recovered_files, carve, rec>>

\* cancel_recovery
CancelRecovery ==
    /\ scenario = "recovery_job"
    /\ recovery' =
           RecoveryBroadcast(
               [recovery EXCEPT
                   !.status = "cancelled",
                   !.at_cancel =
                       IF @ = -1 /\ recovery.pc # "done"
                       THEN FilesWritten(recovery, rec) ELSE @])
    /\ UNCHANGED <<scenario, svars, report, websocket, drive, walk, recovered_files, carve, rec>>

\* the indexed records of a job
JobRecords ==
    {ClientRecord(4096, 300, Sha256(Named("a")), "physical"),
     ClientRecord(8292, 700, Sha256(Named("b")), "letter"),
     ClientRecord(4096, 300, Sha256(Named("a")), "unknown")}

\* the job after start_recovery
RecoveryJobInit ==
    /\ scenario = "recovery_job"
    /\ drive = ClientDrive
    /\ walk = IdleWalk
    /\ recovered_files = <<>>
    /\ carve = IdleCarve
    /\ \E n \in 0..MaxFiles : \E file_list \in [1..n -> JobRecords] :
           rec = [IdleRec EXCEPT !.file_list = file_list]
    /\ \E n \in 0..MaxRegularFiles : \E regular \in [1..n -> BOOLEAN] :
           recovery = [IdleRecovery EXCEPT !.pc = "begin",
                                           !.status = "running",
                                           !.regular = regular]
    /\ report = NoReport
    /\ websocket = NoWebsocket
    /\ ServiceIdle

\* ------------------------------------------------------------------------
\* python_recovery_service.py: _cluster_scan, _health_scan
\* ------------------------------------------------------------------------
ClusterSize == 4096
MaxSampledClusters == 1000
MaxBadSectorPenalty == 50
MaxReallocatedPenalty == 20
MaxPendingPenalty == 15
MaxMediaErrorPenalty == 30
HighTemperature == 60

\* one iteration of `for i in range(0, total_clusters, sample_rate)`:
\* walk.n is i, walk.scanned is sampled_count
ClusterScanSample ==
    /\ scenario = "cluster_scan" /\ walk.pc = "run"
    /\ LET total_clusters == drive.size \div ClusterSize
           sample_rate == Max(1, total_clusters \div MaxSampledClusters)
           expected_samples == total_clusters \div sample_rate
           i == walk.n
           offset == i * ClusterSize
           got == ReadAt(drive, offset, ClusterSize)
           sampled_count == walk.scanned + 1
       IN  IF i >= total_clusters \/ walk.cancelled
           THEN walk' = [walk EXCEPT !.pc = "done", !.progress = Pct(95)]
           ELSE IF got <= 0
           THEN walk' = [walk EXCEPT !.n = i + sample_rate, !.pos = offset]
           ELSE walk' = [walk EXCEPT
                    !.n = i + sample_rate,
                    !.pos = offset + got,
                    !.scanned = sampled_count,
                    !.progress =
                        IF sampled_count % 5 = 0
                           \/ sampled_count >= expected_samples
                        THEN Min(Pct(95), Pct(5) + (sampled_count * Pct(90))
                                                   \div expected_samples)
                        ELSE @]
    /\ UNCHANGED <<scenario, svars, report, websocket, recovery, drive, recovered_files, carve, rec>>

\* the penalty for bad sectors, without its cap
BadSectorPenaltyUncapped(bad_sectors) == bad_sectors * 5

\* bad_sector_penalty
BadSectorPenalty(bad_sectors) == Min(MaxBadSectorPenalty, bad_sectors * 5)

\* _health_scan from `health_score = 100` on.  drive.smart_data holds the
\* numbers the SMART strings parse to, -1 for a key that is absent; score is
\* the local health_score, health_score the one of health_data
HealthScan ==
    /\ scenario = "health_scan" /\ report.of = "none"
    /\ LET smart == drive.smart_data
           usable == ~smart.error
           after_bad == 100 - (IF drive.bad_sectors > 0
                               THEN BadSectorPenalty(drive.bad_sectors) ELSE 0)
           after_reallocated ==
               IF usable /\ smart.Reallocated_Sector_Count > 0
               THEN after_bad - Min(MaxReallocatedPenalty,
                                    smart.Reallocated_Sector_Count)
               ELSE after_bad
           after_pending ==
               IF usable /\ smart.Current_Pending_Sector > 0
               THEN after_reallocated
                    - Min(MaxPendingPenalty, smart.Current_Pending_Sector * 2)
               ELSE after_reallocated
           after_temperature ==
               IF usable /\ smart.Temperature_Celsius > HighTemperature
               THEN after_pending - 5 ELSE after_pending
           after_media ==
               IF usable /\ smart.Media_Errors > 0
               THEN after_temperature
                    - Min(MaxMediaErrorPenalty, smart.Media_Errors * 10)
               ELSE after_temperature
           health_score ==
               IF usable /\ smart.Critical_Warning = "Warning Level"
               THEN after_media - 20 ELSE after_media
       IN  report' = [of |-> "health", score |-> health_score,
                      health_score |-> Max(0, health_score),
                      status |-> IF health_score >= 90 THEN "Excellent"
                                 ELSE IF health_score >= 70 THEN "Good"
                                 ELSE IF health_score >= 50 THEN "Fair"
                                 ELSE "Poor"]
    /\ UNCHANGED <<scenario, svars, websocket, recovery, drive, walk, recovered_files, carve, rec>>

\* the drives the two diagnostic scans are explored on
DiagnosticsInit ==
    /\ \/ /\ scenario = "cluster_scan"
          /\ \E size \in {0, 300 * ClusterSize + 100, 1000 * ClusterSize,
                          1999 * ClusterSize} :
                 drive = [fs |-> "raw", handle |-> "win32", bad |-> {},
                          size |-> size]
          /\ walk = [IdleWalk EXCEPT !.pc = "run"]
       \/ /\ scenario = "health_scan"
          /\ \E bad_sectors \in {0, 1, 10, 11} :
             \E smart_data \in [error : BOOLEAN,
                                Reallocated_Sector_Count : {-1, 5, 25},
                                Current_Pending_Sector : {-1, 3, 8},
                                Temperature_Celsius : {-1, 60, 61},
                                Media_Errors : {-1, 2, 3},
                                Critical_Warning :
                                    {"absent", "None", "Warning Level"}] :
                 drive = [fs |-> "smart", bad_sectors |-> bad_sectors,
                          smart_data |-> smart_data]
          /\ walk = IdleWalk
    /\ recovered_files = <<>>
    /\ carve = IdleCarve
    /\ rec = IdleRec
    /\ recovery = IdleRecovery
    /\ report = NoReport
    /\ websocket = NoWebsocket
    /\ ServiceIdle

\* ------------------------------------------------------------------------
\* websocket_manager.py: connect, disconnect, broadcast; main.py: the /ws
\* endpoint
\* ------------------------------------------------------------------------
\* the sockets of the clients, and the broadcasts that may run at once
Connections == {1, 2, 3}
Broadcasts == {"b1", "b2"}

\* disconnect(websocket): list.remove takes the first occurrence out.  stayed
\* is history: the connections registered ever since the broadcast began
Disconnect(ws, c) ==
    LET list == ws.active_connections
        at == {k \in 1..Len(list) : list[k] = c}
        i == CHOOSE k \in at : \A x \in at : k <= x
    IN  IF at = {} THEN ws
        ELSE [ws EXCEPT
                 !.active_connections =
                     SubSeq(list, 1, i - 1) \o SubSeq(list, i + 1, Len(list)),
                 !.broadcasts =
                     [b \in Broadcasts |-> [@[b] EXCEPT !.stayed = @ \ {c}]]]

\* websocket_endpoint up to its first receive_text: connect(websocket).  The
\* sockets are numbered in the order they connect in.
Connect(c) ==
    /\ scenario = "websocket"
    /\ c \notin websocket.ever
    /\ \A x \in Connections \ websocket.ever : c <= x
    /\ websocket' = [websocket EXCEPT !.active_connections = Append(@, c),
                                      !.ever = @ \cup {c}]
    /\ UNCHANGED <<scenario, svars, report, recovery, drive, walk, recovered_files, carve, rec>>

\* the client goes away: from now on send_json on its socket raises
ClientCloses(c) ==
    /\ scenario = "websocket"
    /\ c \in websocket.ever \ websocket.closed
    /\ websocket' = [websocket EXCEPT !.closed = @ \cup {c}]
    /\ UNCHANGED <<scenario, svars, report, recovery, drive, walk, recovered_files, carve, rec>>

\* receive_text raises WebSocketDisconnect in the endpoint of a closed socket
EndpointDisconnect(c) ==
    /\ scenario = "websocket"
    /\ c \in websocket.closed \ websocket.handled
    /\ websocket' = [Disconnect(websocket, c) EXCEPT !.handled = @ \cup {c}]
    /\ UNCHANGED <<scenario, svars, report, recovery, drive, walk, recovered_files, carve, rec>>

\* `for connection in self.active_connections` asks the list iterator, which
\* has handed out b.index elements, for the next one: the broadcast is
\* suspended in its send_json, or the loop ends and the dead connections
\* collected are disconnected
BroadcastNext(ws, b, me) ==
    LET list == ws.active_connections
        RECURSIVE CleanUp(_, _)
        CleanUp(w, k) ==
            IF k > Len(me.disconnected) THEN w
            ELSE CleanUp(Disconnect(w, me.disconnected[k]), k + 1)
    IN  IF me.index < Len(list)
        THEN [ws EXCEPT !.broadcasts[b] =
                 [me EXCEPT !.pc = "send", !.index = @ + 1,
                            !.connection = list[me.index + 1]]]
        ELSE [CleanUp([ws EXCEPT !.broadcasts[b] = me], 1)
                 EXCEPT !.broadcasts[b].pc = "done"]

\* broadcast(message) is called
BroadcastBegin(b) ==
    /\ scenario = "websocket"
    /\ websocket.broadcasts[b].pc = "idle"
    /\ websocket' =
           BroadcastNext(websocket, b,
               [websocket.broadcasts[b] EXCEPT !.stayed =
                   {websocket.active_connections[k] :
                        k \in 1..Len(websocket.active_connections)}])
    /\ UNCHANGED <<scenario, svars, report, recovery, drive, walk, recovered_files, carve, rec>>

\* await connection.send_json(message) returns or raises, and the loop goes on
BroadcastSendReturns(b) ==
    /\ scenario = "websocket"
    /\ websocket.broadcasts[b].pc = "send"
    /\ LET me == websocket.broadcasts[b]
           c == me.connection
       IN  websocket' =
               BroadcastNext(websocket, b,
                   IF c \in websocket.closed
                   THEN [me EXCEPT !.disconnected = Append(@, c)]
                   ELSE [me EXCEPT !.delivered[c] = @ + 1])
    /\ UNCHANGED <<scenario, svars, report, recovery, drive, walk, recovered_files, carve, rec>>

WebsocketInit ==
    /\ scenario = "websocket"
    /\ websocket = [active_connections |-> <<>>, pc |-> "on", ever |-> {},
                    closed |-> {}, handled |-> {},
                    broadcasts |->
                        [b \in Broadcasts |->
                            [pc |-> "idle", index |-> 0, connection |-> 0,
                             disconnected |-> <<>>, stayed |-> {},
                             delivered |-> [c \in Connections |-> 0]]]]
    /\ drive = NoDrive
    /\ walk = IdleWalk
    /\ recovered_files = <<>>
    /\ carve = IdleCarve
    /\ rec = IdleRec
    /\ recovery = IdleRecovery
    /\ report = NoReport
    /\ ServiceIdle

\* ------------------------------------------------------------------------
\* specification
\* ------------------------------------------------------------------------
ServiceInit ==
    /\ scenario \in {"service", "jobs"}
    /\ ServiceIdle
    /\ drive = NoDrive
    /\ walk = IdleWalk
    /\ recovered_files = <<>>
    /\ carve = IdleCarve
    /\ rec = IdleRec
    /\ recovery = IdleRecovery
    /\ report = NoReport
    /\ websocket = NoWebsocket

Init ==
    \/ ServiceInit \/ NtfsInit \/ AttributesInit \/ Fat32Init \/ CarveInit
    \/ RecoverInit \/ RecoveryJobInit \/ DataRunsInit
    \/ WebsocketInit \/ DiagnosticsInit

Next ==
    \/ \E j \in JobIds, t \in ScanTypes, d \in BOOLEAN : StartScan(j, t, d)
    \/ \E j \in JobIds : RunScanDispatch(j)
    \/ \E j \in JobIds : RunNormalScan(j)
    \/ \E j \in JobIds : RunDeepScan(j)
    \/ \E j \in JobIds : DriveLookup(j)
    \/ \E j \in JobIds : RunClusterScan(j)
    \/ \E j \in JobIds : RunHealthScan(j)
    \/ \E j \in JobIds : RunSignatureScan(j)
    \/ \E j \in JobIds : ForensicDriveAnalysis(j)
    \/ \E j \in JobIds : ForensicDeletedFilesStep(j)
    \/ \E j \in JobIds : ForensicSignatureRecovery(j)
    \/ \E j \in JobIds : ForensicMetadataExtraction(j)
    \/ \E j \in JobIds : ForensicHashCalculation(j)
    \/ \E j \in JobIds : RunScanNotify(j)
    \/ \E j \in JobIds : CancelScan(j)
    \/ \E j \in JobIds, s \in Senders : Deliver(j, s)
    \/ SetCancelFlag
    \/ NtfsWalkEntry
    \/ ParseAttribute
    \/ ParseRuns
    \/ ReadDataRun
    \/ FatWalkCluster
    \/ CarveReadChunk
    \/ CarveNextHeader
    \/ RecoverIndexed
    \/ RecoverFile
    \/ RunRecoveryBegin
    \/ IndexedFileStart
    \/ IndexedFileBody
    \/ RegularFile
    \/ CancelRecovery
    \/ ClusterScanSample
    \/ HealthScan
    \/ \E c \in Connections : Connect(c)
    \/ \E c \in Connections : ClientCloses(c)
    \/ \E c \in Connections : EndpointDisconnect(c)
    \/ \E b \in Broadcasts : BroadcastBegin(b)
    \/ \E b \in Broadcasts : BroadcastSendReturns(b)

Spec == Init /\ [][Next]_vars

\* the event loop runs every task that is ready: sleeps and sends complete
FairSpec ==
    /\ Spec
    /\ \A j \in JobIds : WF_vars(TaskStep(j))
    /\ \A j \in JobIds : \A s \in Senders : WF_vars(Deliver(j, s))
    /\ WF_vars(ParseAttribute)

\* ------------------------------------------------------------------------
\* properties
\* ------------------------------------------------------------------------
TerminalStatuses == {"completed", "cancelled", "error"}

Finished(j) == j \in DOMAIN task /\ task[j].pc = "done"

\* C1: a scan cancelled while its task was running has status "cancelled"
\* once the task has finished, whatever its scan type.
C1_CancelledStaysCancelled ==
    \A j \in JobIds :
        (Finished(j) /\ cancel_running[j]) =>
            active_scans[j].status = "cancelled"

\* C2: once is_cancelled() holds the scan routine reads at most one more
\* chunk (Carver) and at most 100 more MFT records or clusters (NTFS and
\* FAT32 walks) before it returns.
C2_BoundedReadsAfterCancel ==
    /\ scenario = "carve" => walk.since_cancel <= 1
    /\ scenario \in {"ntfs", "fat32"} => walk.since_cancel <= CancelCheckEvery

\* C3: a scan cancelled while running that had reported files_found > 0
\* returns a non-empty list from get_scan_results once its task is over.
C3_PartialResultsKept ==
    \A j \in JobIds :
        (Finished(j) /\ cancel_running[j] /\ active_scans[j].files_found > 0)
            => GetScanResults(j) > 0

\* C4: every scan that is started eventually leaves "running": its task
\* ends and the status is then completed, cancelled or error.
C4_ScanTerminates ==
    \A j \in JobIds :
        (j \in DOMAIN active_scans) ~>
            (Finished(j) /\ active_scans[j].status \in TerminalStatuses)

C4_Witness ==
    \E j \in JobIds :
        /\ Finished(j)
        /\ active_scans[j].scan_type = "forensic"
        /\ active_scans[j].status = "completed"
        /\ GetScanResults(j) = ForensicDeletedFiles + ForensicCarvedFiles

\* C5: a scan whose drive lookup failed ("Drive not found") never ends
\* "completed".
C5_DeviceFailureNotCompleted ==
    \A j \in JobIds :
        (Finished(j) /\ ~task[j].drive_ok) =>
            active_scans[j].status # "completed"

\* C6: no step lowers the progress written to a job, nor the progress of
\* the messages broadcast for it.
C6_ProgressMonotone ==
    [][/\ \A j \in DOMAIN active_scans :
            /\ active_scans'[j].progress >= active_scans[j].progress
            /\ j \in DOMAIN sent => sent'[j].progress >= sent[j].progress
       /\ walk'.progress >= walk.progress]_vars

C6_Witness ==
    \E j \in JobIds :
        /\ j \in DOMAIN task /\ j \in DOMAIN sent
        /\ task[j].pc = "f_hash" /\ task[j].i > 1
        /\ sent[j].progress > Pct(90)

\* the results recover_selected_files appended for file number k
ResultsFor(k) == {i \in 1..Len(rec.results) : rec.results[i].file = k}

\* C7: every record a scan emitted with status "indexed" is reported
\* recovered when recover_selected_files runs on the unchanged device: the
\* bytes at record.offset of length record.size hash to record.sha256.
C7_IndexedRecordsRoundTrip ==
    scenario \in {"ntfs", "fat32", "carve"} =>
        \A i \in 1..Len(rec.results) :
            LET f == rec.file_list[rec.results[i].file]
                data == ExtractedData(drive, f)
            IN data.aligned > 0 =>
                  /\ Sha256(data.content) = f.sha256
                  /\ rec.results[i].status = "recovered"

\* C8: no output file is written for a record whose sha256 differs from the
\* hash of the bytes read for it, and a record refused for hash_mismatch has
\* exactly one result.
C8_HashCheckedBeforeWrite ==
    /\ \A i \in 1..Len(rec.written) :
          Sha256(rec.written[i].content)
              = rec.file_list[rec.written[i].file].sha256
    /\ \A i \in 1..Len(rec.results) :
          rec.results[i].reason = "hash_mismatch" =>
              Cardinality(ResultsFor(rec.results[i].file)) = 1

\* C9: when recover_selected_files has returned, results holds exactly one
\* entry per input file and recovered_count + failed_count = len(file_list).
C9_OneResultPerFile ==
    rec.pc = "done" =>
        /\ Len(rec.results) = Len(rec.file_list)
        /\ rec.recovered_count + rec.failed_count = Len(rec.file_list)
        /\ \A k \in 1..Len(rec.file_list) : Cardinality(ResultsFor(k)) = 1

\* C10: no two records of the list a scan builds have the same md5.
C10_Md5Unique ==
    \A i, j \in 1..Len(recovered_files) :
        i # j => recovered_files[i].md5 # recovered_files[j].md5

\* the whole files of the device the Carver can emit: a header with a file
\* behind it that passes validation and has the minimum size
WholeFiles(d) ==
    {h \in d.headers :
        /\ h.valid /\ h.content # "" /\ SigOffset(h.sig) = 0
        /\ h.stop - h.pos >= MinCarvedSize
        /\ h.stop - h.pos <= ChunkSize}

\* C11: when an index-mode scan of a readable device has run to its end, every
\* valid file that fits in one overlap-extended chunk has a record at its
\* offset, unless a record with the same md5 was emitted before (duplicate).
C11_EveryFileEmitted ==
    (/\ scenario = "carve" /\ walk.pc = "done" /\ ~walk.cancelled
     /\ drive.scan_type = "deep" /\ drive.bad = {}) =>
        \A h \in WholeFiles(drive) :
            \E i \in 1..Len(recovered_files) :
                \/ recovered_files[i].offset = h.pos
                \/ recovered_files[i].md5 = Md5(Named(h.content))

\* C12: every record the Carver emits has size at most C + O.
C12_CarvedSizeBounded ==
    scenario = "carve" =>
        \A i \in 1..Len(recovered_files) :
            recovered_files[i].size <= ChunkSize + KeepBuffer

C12_Witness ==
    /\ scenario = "carve"
    /\ \E i \in 1..Len(recovered_files) :
          recovered_files[i].size > ChunkSize

RECURSIVE SumSizes(_)
SumSizes(files) ==
    IF files = <<>> THEN 0 ELSE Head(files).size + SumSizes(Tail(files))

\* C13: in carving (write) mode the sizes of the records returned so far
\* add up to at most min(2 x device size, 20 GiB), in every state.
C13_WriteModeCap ==
    (scenario = "carve" /\ drive.scan_type = "carving") =>
        /\ SumSizes(recovered_files) <= 2 * drive.size
        /\ (SumSizes(recovered_files) - 1) \div 1024 < MaxRecoveryKiB

C13_Witness ==
    /\ scenario = "carve" /\ drive.scan_type = "carving"
    /\ carve.total_recovered_size > 2 * drive.size
    /\ Len(recovered_files) >= 5

\* C14: with several scan jobs running, the step in which one job's task
\* fails with an unhandled exception sets that job's status to "error" and
\* leaves the scan_info, the stored results and the task of every other job
\* as they were; every other job still reaches a terminal status of its own.
C14_ErrorStaysInItsJob ==
    /\ [][\A j \in DOMAIN active_scans :
            (active_scans[j].status # "error"
             /\ active_scans'[j].status = "error") =>
                \A k \in DOMAIN active_scans \ {j} :
                    /\ active_scans'[k] = active_scans[k]
                    /\ task'[k] = task[k]
                    /\ (k \in DOMAIN scan_results) =
                           (k \in DOMAIN scan_results')
                    /\ k \in DOMAIN scan_results =>
                           scan_results'[k] = scan_results[k]]_vars
    /\ \A j \in JobIds : \A k \in JobIds \ {j} :
           (/\ j \in DOMAIN active_scans /\ k \in DOMAIN active_scans
            /\ active_scans[j].status = "error") ~>
               (Finished(k) /\ active_scans[k].status \in TerminalStatuses)

C14_Witness ==
    /\ scenario = "jobs"
    /\ Finished("job1") /\ Finished("job2")
    /\ active_scans["job1"].status = "error"
    /\ active_scans["job2"].status = "completed"
    /\ active_scans["job2"].scan_type = "health"
    /\ task["job2"].drive_ok
    /\ active_scans["job2"].progress = Pct(100)

\* C15: for each job at most one progress event is in flight to the
\* subscribers at any time (a newer event replaces a waiting one).
C15_OneEventInFlight ==
    \A j \in JobIds : in_flight[j].task + in_flight[j].request <= 1

\* C16: the attribute walk over one MFT entry always terminates, whatever
\* the entry holds: every pass through the loop stops the walk or moves the
\* offset forward by the attribute's length.
C16_AttributeWalkTerminates ==
    (scenario = "attributes") ~> (walk.pc = "done")

\* C17: during the NTFS scan the k-th entry examined is read at device
\* offset mft_offset + k * 1024, for every k, also after the data of a
\* non-resident file has been read through the same handle.
C17_EntryReadAtItsOffset ==
    (scenario = "ntfs" /\ walk.pc = "run" /\ drive.bad = {}) =>
        walk.pos = MftOffset(drive) + walk.n * MftEntrySize

\* C18: a terminal status is absorbing: a scan job or a recovery job whose
\* status is "completed" or "error" keeps that status in every later step,
\* cancel_scan and cancel_recovery included.
C18_TerminalStatusAbsorbing ==
    [][/\ \A j \in DOMAIN active_scans :
            active_scans[j].status \in {"completed", "error"} =>
                active_scans'[j].status = active_scans[j].status
       /\ recovery.status \in {"completed", "error"} =>
                recovery'.status = recovery.status]_vars

\* C19: once cancel_recovery was called on a running recovery job, at most
\* the file being processed at that moment is still written to the output
\* directory, and the job ends with status "cancelled".
C19_NoWritesAfterCancel ==
    (scenario = "recovery_job" /\ recovery.at_cancel >= 0) =>
        /\ FilesWritten(recovery, rec) <= recovery.at_cancel + 1
        /\ recovery.pc = "done" => recovery.status = "cancelled"

\* C20: no step of a recovery job lowers the progress written to the job or
\* the progress broadcast for it, whatever the mix of indexed and
\* already-staged files.
C20_RecoveryProgressMonotone ==
    [][scenario = "recovery_job" =>
          /\ recovery'.progress >= recovery.progress
          /\ recovery'.sent >= recovery.sent]_vars

\* C21: once an accepted file has pushed the cumulative size above the
\* safety cap, the Carver reads no further chunk from the device, examines
\* no further candidate and adds no record to the list it returns.
C21_CarvingStopsAtCap ==
    [][(/\ scenario = "carve" /\ walk.pc \in {"run", "scan"}
        /\ OverRecoveryCap(drive, drive.scan_type,
                           carve.total_recovered_size)) =>
           /\ carve'.bytes_scanned = carve.bytes_scanned
           /\ carve'.total_recovered_size = carve.total_recovered_size
           /\ recovered_files' = recovered_files]_vars

\* C22: of two acceptable candidates whose headers start less than 512
\* bytes apart, of the same or of different signatures, only the one at the
\* lower offset is emitted, and no two emitted records start less than 512
\* bytes apart.  A candidate is acceptable here when it is valid, large
\* enough, complete in its chunk and no copy of another file's content.
C22_LowerOffsetWins ==
    (/\ scenario = "carve" /\ walk.pc = "done" /\ ~walk.cancelled
     /\ drive.scan_type = "deep" /\ drive.bad = {}) =>
        /\ \A lo \in drive.headers : \A hi \in drive.headers :
              (/\ lo.pos < hi.pos /\ hi.pos - lo.pos < OffsetWindow
               /\ lo.valid /\ hi.valid
               /\ SigOffset(lo.sig) = 0 /\ SigOffset(hi.sig) = 0
               /\ \A h \in {lo, hi} :
                     /\ HasFooter(h.sig) =>
                            /\ h.stop - h.pos >= MinCarvedSize
                            /\ h.stop - h.pos <= ChunkSize
                     /\ \A g \in drive.headers \ {h} :
                            h.content = "" \/ g.content # h.content) =>
                  \A i \in 1..Len(recovered_files) :
                      recovered_files[i].offset # hi.pos
        /\ \A i \in 1..Len(recovered_files) :
              \A k \in 1..Len(recovered_files) :
                  i # k => \/ recovered_files[i].offset
                                - recovered_files[k].offset >= OffsetWindow
                           \/ recovered_files[k].offset
                                - recovered_files[i].offset >= OffsetWindow

\* C23: for every record the extractor reads, it seeks to the largest
\* multiple of 512 not above the offset, requests a multiple of 512 bytes
\* that covers [offset, offset + size), and hands on exactly the device bytes
\* [offset, offset + size) whenever the device holds and returns them.
C23_SectorAlignedExtraction ==
    \A k \in 1..rec.idx :
        LET f == rec.file_list[k]
            seek == AlignedOffset(f.offset)
            request == AlignedReadSize(f.offset, f.size)
            data == ExtractedData(drive, f)
        IN /\ seek % SectorSize = 0
           /\ seek <= f.offset /\ f.offset < seek + SectorSize
           /\ request % SectorSize = 0
           /\ seek + request >= f.offset + f.size
           /\ (f.size > 0 /\ data.aligned >= f.offset - seek + f.size) =>
                  /\ data.start = f.offset /\ data.len = f.size
                  /\ data.content = DeviceDataOf(Blobs(drive), f.offset, f.size)

C23_Witness ==
    /\ scenario = "recover"
    /\ \E i \in 1..Len(rec.results) :
          LET f == rec.file_list[rec.results[i].file]
          IN /\ rec.results[i].status = "recovered"
             /\ f.offset % SectorSize # 0
             /\ f.size % SectorSize # 0
             /\ ExtractedData(drive, f).content = Named("b")

\* C24: of the runs _read_data_runs has put into file_data, those without an
\* offset field, and no others, were filled with zeros, and every other one
\* was read from the device at the cluster that is the sum of the signed
\* one-byte offset fields of the non-sparse runs up to and including it
C24_RunsReadAtTheirClusters ==
    scenario = "data_runs" =>
        \A p \in 1..Len(report.file_data) :
            LET b == drive.data_runs_bytes
                RECURSIVE SignedSum(_)
                SignedSum(k) ==
                    IF k = 0 THEN 0
                    ELSE SignedSum(k - 1)
                         + (IF b[k].offset_size = 0 THEN 0
                            ELSE IF b[k].field >= 128 THEN b[k].field - 256
                            ELSE b[k].field)
                piece == report.file_data[p]
                run == b[piece.run]
                cluster == SignedSum(piece.run)
            IN  /\ (piece.from = "zeros") <=> (run.offset_size = 0)
                /\ piece.from = "device" =>
                       piece.at = cluster * drive.bytes_per_cluster

\* C25: when the MFT walk has finished, uncancelled and on a readable device,
\* every deleted named file it has parsed whose non-resident data is declared
\* larger than the read cap has an indexed record of cap size with is_partial
C25_OversizedFileEmittedPartial ==
    (/\ scenario = "ntfs" /\ walk.pc = "done"
     /\ ~walk.cancelled /\ drive.bad = {}) =>
        \A k \in DOMAIN drive.mft :
            (/\ k < walk.n
             /\ \A x \in DOMAIN drive.mft :
                    x < k => drive.mft[x].data # "nonresident"
             /\ drive.mft[k].magic = "FILE" /\ drive.mft[k].flags = 0
             /\ drive.mft[k].name
             /\ drive.mft[k].data = "nonresident"
             /\ drive.mft[k].len > MaxNonResidentSize) =>
                \E i \in 1..Len(recovered_files) :
                    /\ recovered_files[i].offset = EntryOffset(drive, k)
                    /\ recovered_files[i].status = "indexed"
                    /\ recovered_files[i].size = MaxNonResidentSize
                    /\ recovered_files[i].is_partial

\* C26: every step of a metadata scan that emits records emits them for
\* entries marked as deleted regular files: the NTFS walk for the record it
\* has just read, which starts with "FILE" and has neither the in-use nor the
\* directory flag; the FAT32 walk for directory entries whose first byte is
\* 0xE5, that are neither directory nor volume label, and start at cluster >= 2
C26_RecordsFromDeletedFiles ==
    [][\A i \in (Len(recovered_files) + 1)..Len(recovered_files') :
          /\ scenario = "ntfs" =>
                 LET e == EntryAt(drive, walk.pos)
                 IN  /\ e.magic = "FILE"
                     /\ e.flags \notin {1, 2, 3}
          /\ scenario = "fat32" =>
                 \E k \in DOMAIN drive.dir :
                     /\ recovered_files'[i].offset =
                            ClusterOffset(drive, k[1]) + k[2] * DirEntrySize
                     /\ drive.dir[k].first = 229
                     /\ drive.dir[k].attr \notin {"directory", "volume_label"}
                     /\ drive.dir[k].start_cluster >= 2]_vars

\* an NTFS walk has passed the deleted directory and the record with magic
\* "BAAD" and has emitted records; neither of them has one
C26_Witness ==
    /\ scenario = "ntfs" /\ walk.n > 9 /\ Len(recovered_files) >= 2
    /\ drive.mft[9].magic = "BAAD" /\ drive.mft[9].len >= MinRecordSize
    /\ drive.mft[1].flags = 2
    /\ \A i \in 1..Len(recovered_files) :
           recovered_files[i].offset \notin
               {EntryOffset(drive, 1), EntryOffset(drive, 9)}

\* C27: at every point of a carving run every md5 in found_hashes and every
\* offset in found_offsets is the md5, the offset, of an emitted record
C27_SetsHoldEmittedRecords ==
    scenario = "carve" =>
        /\ \A h \in carve.found_hashes :
               \E i \in 1..Len(recovered_files) : recovered_files[i].md5 = h
        /\ \A o \in carve.found_offsets :
               \E i \in 1..Len(recovered_files) : recovered_files[i].offset = o

\* C28: when a broadcast has ended, every connection that was registered from
\* its beginning to its end has been sent the message exactly once
C28_DeliveredExactlyOnce ==
    scenario = "websocket" =>
        \A b \in Broadcasts :
            websocket.broadcasts[b].pc = "done" =>
                \A c \in websocket.broadcasts[b].stayed :
                    websocket.broadcasts[b].delivered[c] = 1

\* C29: the cluster-sample scan has never read more than 1000 clusters, and
\* it reads them at whole multiples of its sampling step
C29_AtMostThousandSamples ==
    scenario = "cluster_scan" =>
        /\ walk.scanned <= 1000
        /\ LET total == drive.size \div 4096
           IN  walk.n % (IF total < 2000 THEN 1 ELSE total \div 1000) = 0

====
